---- MODULE Spec2Model ----
(***************************************************************************)
(* A model of xfl2svg: the edge decoder and shape assembler of             *)
(* shape/edge.py, the color effects of color_effect.py, the loop-frame     *)
(* computation and the recursive renderer of svg_renderer.py, and the      *)
(* timeline setup of xfl_reader.py.                                        *)
(*                                                                         *)
(* Each component has its own variables and its own specification; a       *)
(* component that a specification does not exercise stays in its idle      *)
(* state.                                                                  *)
(***************************************************************************)
EXTENDS Integers, Sequences, FiniteSets, TLC

VARIABLES
    \* color_effect.py: two <Color> descriptors, the effects made of them
    \* and their composition, the descriptors from_xfl warned about, the
    \* exception raised ("" when none), a third effect with the compositions
    \* of the three grouped to the left and to the right, and where the
    \* component is
    ce_attrib_a, ce_attrib_b, ce_outer, ce_inner, ce_result, ce_warned, ce_error,
    ce_third, ce_left, ce_right, ce_pc,
    \* svg_renderer.py _get_loop_frame: the instance, the referenced
    \* timeline's layers, the frame offset and the outcome
    lf_instance, lf_layers, lf_offset, lf_result,
    \* shape/edge.py edge_format_to_point_lists: the "edges" attribute, its
    \* tokens, the position of the token iterator, the locals point_list and
    \* prev_point, the point lists yielded so far, the point lists reversed
    \* for the fill on their right, and where the generator is ("tokenize",
    \* "start", "loop", "done", "reversed" or "raised") with the exception
    dec_edges, dec_tokens, dec_pos, dec_point_list, dec_prev_point, dec_segments,
    dec_reversed, dec_pc, dec_error,
    \* shape/edge.py point_lists_to_shapes: the input, the dicts graph and
    \* shapes, the positions of the iterators of the three for loops with the
    \* size of the dict the inner one began with, the locals origin and
    \* point_list, the set used_points, the frames of the calls of walk(), the
    \* value the last call of walk() returned, whether a call has
    \* backtracked, and where the function is ("start", "fills", "origins",
    \* "while", "walk", "return", "assert", "returned" or the exception raised)
    sa_point_lists, sa_graph, sa_shapes, sa_iter, sa_origin, sa_point_list,
    sa_used_points, sa_stack, sa_shape, sa_backtracked, sa_pc,
    \* xfl_reader.py and svg_renderer.py: the reader's scenes and symbols, the
    \* renderer's mask_num, its LRU cache and the cache's maxsize, the calls
    \* of self._handle_domshape the renderer has made with their values, the
    \* record of what its methods did, the renders made so far with their
    \* documents, and whether the component runs ("idle" or "ready")
    rn_scenes, rn_symbols, rn_mask_num, rn_cache, rn_maxsize, rn_seen, rn_trace,
    rn_renders, rn_pc,
    \* shape/style.py: the style element given to parse_fill_style or to
    \* parse_stroke_style, which of the two, the attributes returned, the
    \* warnings issued, and where the component is ("idle", "parse", "parsed")
    st_style, st_is_fill, st_attrib, st_warnings, st_pc,
    \* xfl_reader.py get_timeline called from two threads: the layers of the
    \* timeline as the project's files hold them, self.scenes[name] and
    \* self.symbols[name], each thread's position in get_timeline with its
    \* locals, and the number of calls of setup_timeline begun for each kind
    rd_source, rd_scene, rd_symbol, rd_thread, rd_passes

ceVars == <<ce_attrib_a, ce_attrib_b, ce_outer, ce_inner, ce_result, ce_warned,
            ce_error, ce_third, ce_left, ce_right, ce_pc>>
lfVars == <<lf_instance, lf_layers, lf_offset, lf_result>>
decVars == <<dec_edges, dec_tokens, dec_pos, dec_point_list, dec_prev_point,
             dec_segments, dec_reversed, dec_pc, dec_error>>
saVars == <<sa_point_lists, sa_graph, sa_shapes, sa_iter, sa_origin, sa_point_list,
            sa_used_points, sa_stack, sa_shape, sa_backtracked, sa_pc>>
rnVars == <<rn_scenes, rn_symbols, rn_mask_num, rn_cache, rn_maxsize, rn_seen,
            rn_trace, rn_renders, rn_pc>>
stVars == <<st_style, st_is_fill, st_attrib, st_warnings, st_pc>>
rdVars == <<rd_source, rd_scene, rd_symbol, rd_thread, rd_passes>>
vars == <<ceVars, lfVars, decVars, saVars, rnVars, stVars, rdVars>>

\* What the actions of one component leave alone: the other components.
ceOthers == <<lfVars, decVars, saVars, rnVars, stVars, rdVars>>
lfOthers == <<ceVars, decVars, saVars, rnVars, stVars, rdVars>>
decOthers == <<ceVars, lfVars, saVars, rnVars, stVars, rdVars>>
saOthers == <<ceVars, lfVars, decVars, rnVars, stVars, rdVars>>
rnOthers == <<ceVars, lfVars, decVars, saVars, stVars, rdVars>>
stOthers == <<ceVars, lfVars, decVars, saVars, rnVars, rdVars>>
rdOthers == <<ceVars, lfVars, decVars, saVars, rnVars, stVars>>

(***************************************************************************)
(* Numbers.  Python floats are modelled as exact rationals <<n, d>> in     *)
(* lowest terms with d > 0, so that /20, /255 and /256 are real divisions. *)
(***************************************************************************)
Abs(x) == IF x < 0 THEN -x ELSE x

RECURSIVE GCD(_, _)
GCD(a, b) == IF b = 0 THEN a ELSE GCD(b, a % b)

Rat(n, d) ==
    LET g == GCD(Abs(n), Abs(d))
        s == IF d < 0 THEN -1 ELSE 1
    IN  <<(s * n) \div g, (s * d) \div g>>

R(n) == <<n, 1>>
RMul(a, b) == Rat(a[1] * b[1], a[2] * b[2])
RAdd(a, b) == Rat(a[1] * b[2] + b[1] * a[2], a[2] * b[2])
RSub(a, b) == Rat(a[1] * b[2] - b[1] * a[2], a[2] * b[2])
RDiv(a, n) == Rat(a[1], a[2] * n)
RLess(a, b) == a[1] * b[2] < b[1] * a[2]

(***************************************************************************)
(* XML attributes: a dict of the attributes present.                       *)
(***************************************************************************)
Has(attrib, key) == key \in DOMAIN attrib
Get(attrib, key, default) == IF key \in DOMAIN attrib THEN attrib[key] ELSE default

(***************************************************************************)
(* color_effect.py                                                         *)
(***************************************************************************)
\* ColorEffect(effect=None), the identity effect.
CeNone == [some |-> FALSE, m |-> <<>>, o |-> <<>>]

\* ColorEffect((multiplier, offset)).
ColorEffect(multiplier, offset) == [some |-> TRUE, m |-> multiplier, o |-> offset]

\* The explicit identity ((1, 1, 1, 1), (0, 0, 0, 0)).
CeOnes == ColorEffect(<<R(1), R(1), R(1), R(1)>>, <<R(0), R(0), R(0), R(0)>>)

Digits == <<"0", "1", "2", "3", "4", "5", "6", "7", "8", "9">>
UpperHex == <<"A", "B", "C", "D", "E", "F">>
LowerHex == <<"a", "b", "c", "d", "e", "f">>
OtherLetters ==
    {"G", "H", "I", "J", "K", "L", "M", "N", "O", "P", "Q", "R", "S", "T", "U", "V",
     "W", "X", "Y", "Z", "g", "h", "i", "j", "k", "l", "m", "n", "o", "p", "q", "r",
     "s", "t", "u", "v", "w", "x", "y", "z"}

Range(seq) == {seq[i] : i \in DOMAIN seq}
HexDigitChars == Range(Digits) \cup Range(UpperHex) \cup Range(LowerHex)
\* [A-Za-z0-9]
AlNumChars == HexDigitChars \cup OtherLetters

IndexOf(seq, c) == CHOOSE i \in DOMAIN seq : seq[i] = c

\* The value of one hex digit, as int(_, 16) reads it.
HexDigitValue(c) ==
    IF c \in Range(Digits) THEN IndexOf(Digits, c) - 1
    ELSE IF c \in Range(UpperHex) THEN IndexOf(UpperHex, c) + 9
    ELSE IndexOf(LowerHex, c) + 9

\* HEX_COLOR.fullmatch(tint_color)
HEX_COLOR_fullmatch(color) ==
    /\ Len(color) = 7
    /\ color[1] = "#"
    /\ \A i \in 2..7 : color[i] \in AlNumChars

\* int(tint_color[i:i+2], 16) succeeds
IsHexPair(color, i) == color[i] \in HexDigitChars /\ color[i + 1] \in HexDigitChars
\* int(tint_color[i:i+2], 16)
HexPair(color, i) == 16 * HexDigitValue(color[i]) + HexDigitValue(color[i + 1])

Black == <<"#", "0", "0", "0", "0", "0", "0">>

AdvancedKeys ==
    {"redMultiplier", "greenMultiplier", "blueMultiplier", "alphaMultiplier",
     "redOffset", "greenOffset", "blueOffset", "alphaOffset"}

FromXflResult(effect, warned, raised) ==
    [effect |-> effect, warned |-> warned, raised |-> raised]

\* ColorEffect.from_xfl: the effect of a <Color> element, whether a warning
\* was issued, and the exception raised ("" when none).
from_xfl(attrib) ==
    IF Has(attrib, "alphaMultiplier") THEN
        FromXflResult(
            ColorEffect(<<R(1), R(1), R(1), attrib["alphaMultiplier"]>>,
                        <<R(0), R(0), R(0), R(0)>>), FALSE, "")
    ELSE IF Has(attrib, "brightness") THEN
        LET brightness == attrib["brightness"] IN
        IF RLess(brightness, R(0)) THEN
            LET k == RAdd(R(1), brightness) IN
            FromXflResult(
                ColorEffect(<<k, k, k, R(1)>>, <<R(0), R(0), R(0), R(0)>>),
                FALSE, "")
        ELSE
            LET k == RSub(R(1), brightness) IN
            FromXflResult(
                ColorEffect(<<k, k, k, R(1)>>,
                            <<brightness, brightness, brightness, R(0)>>),
                FALSE, "")
    ELSE IF Has(attrib, "tintMultiplier") \/ Has(attrib, "tintColor") THEN
        LET tint_multiplier == Get(attrib, "tintMultiplier", R(0))
            k == RSub(R(1), tint_multiplier)
            tint_color == Get(attrib, "tintColor", Black)
        IN  IF ~HEX_COLOR_fullmatch(tint_color) THEN
                FromXflResult(CeNone, TRUE, "")
            ELSE IF \E i \in {2, 4, 6} : ~IsHexPair(tint_color, i) THEN
                FromXflResult(CeNone, FALSE, "ValueError")
            ELSE
                FromXflResult(
                    ColorEffect(
                        <<k, k, k, R(1)>>,
                        <<RDiv(RMul(tint_multiplier, R(HexPair(tint_color, 2))), 255),
                          RDiv(RMul(tint_multiplier, R(HexPair(tint_color, 4))), 255),
                          RDiv(RMul(tint_multiplier, R(HexPair(tint_color, 6))), 255),
                          R(0)>>),
                    FALSE, "")
    ELSE IF DOMAIN attrib \cap AdvancedKeys # {} THEN
        FromXflResult(
            ColorEffect(
                <<Get(attrib, "redMultiplier", R(1)),
                  Get(attrib, "greenMultiplier", R(1)),
                  Get(attrib, "blueMultiplier", R(1)),
                  Get(attrib, "alphaMultiplier", R(1))>>,
                <<RDiv(Get(attrib, "redOffset", R(0)), 255),
                  RDiv(Get(attrib, "greenOffset", R(0)), 255),
                  RDiv(Get(attrib, "blueOffset", R(0)), 255),
                  RDiv(Get(attrib, "alphaOffset", R(0)), 255)>>),
            FALSE, "")
    ELSE
        FromXflResult(CeNone, TRUE, "")

\* A slip in the offset of the composition: the inner offset is added where
\* the outer one belongs.
matmul_inner_offset(self, other) ==
    IF ~self.some THEN other
    ELSE IF ~other.some THEN self
    ELSE ColorEffect(
            [c \in 1..4 |-> RMul(self.m[c], other.m[c])],
            [c \in 1..4 |-> RAdd(RMul(self.m[c], other.o[c]), other.o[c])])

\* ColorEffect.__matmul__: self @ other, other applied first.
matmul(self, other) ==
    IF ~self.some THEN other
    ELSE IF ~other.some THEN self
    ELSE ColorEffect(
            [c \in 1..4 |-> RMul(self.m[c], other.m[c])],
            [c \in 1..4 |-> RAdd(RMul(self.m[c], other.o[c]), self.o[c])])

\* ColorEffect.is_identity
is_identity(e) == ~e.some \/ e = CeOnes

\* hash() of a number: the number itself, but -1 is reserved and hashes as
\* -2 does.
PyHashNumber(x) == IF x = R(-1) THEN R(-2) ELSE x

\* hash(self): the hash of a tuple is a function of its elements' hashes
\* alone, kept here as the tuple of them.
PyHashEffect(e) ==
    IF ~e.some THEN <<>>
    ELSE <<[c \in 1..4 |-> PyHashNumber(e.m[c])],
           [c \in 1..4 |-> PyHashNumber(e.o[c])]>>

\* ColorEffect.id
FilterId(e) == "Filter_" \o ToString(PyHashEffect(e))

(***************************************************************************)
(* The color effect component: two <Color> descriptors are read, and the   *)
(* first effect (outer) is composed with the second (inner).               *)
(***************************************************************************)
Half == Rat(1, 2)
Red == <<"#", "F", "F", "0", "0", "0", "0">>

\* Tint colors that are not "#" and six hex digits: too short, no "#", and
\* six letters and digits that are not all hex digits.
BadTintColors ==
    {<<"#", "F", "F", "0">>,
     <<"F", "F", "0", "0", "0", "0", "0">>,
     <<"#", "G", "G", "0", "0", "0", "0">>,
     <<"#", "0", "0", "0", "0", "z", "z">>}

Attrib1(k, v) == (k :> v)
Attrib2(k1, v1, k2, v2) == (k1 :> v1) @@ (k2 :> v2)

\* The <Color> elements the model reads.
ColorAttribs ==
    {Attrib1("alphaMultiplier", v) : v \in {R(0), Half, R(1)}}
    \cup {Attrib1("brightness", v) : v \in {Rat(-1, 2), R(0), Half}}
    \cup {Attrib2("tintMultiplier", Half, "tintColor", Red),
          Attrib1("tintMultiplier", Half)}
    \cup {Attrib1("redMultiplier", v) : v \in {R(-1), Half}}
    \cup {Attrib1("redOffset", v) : v \in {R(-255), R(255)}}
    \cup {Attrib2("greenMultiplier", Half, "alphaOffset", R(51))}
    \cup {Attrib2("alphaMultiplier", Half, "redMultiplier", Half),
          Attrib2("alphaMultiplier", Half, "blueOffset", R(255))}
    \cup {Attrib2("tintMultiplier", Half, "tintColor", c) : c \in BadTintColors}
    \cup {Attrib1("saturation", Half)}
    \cup {<<>>}

CeIdle ==
    /\ ce_attrib_a = <<>>
    /\ ce_attrib_b = <<>>
    /\ ce_outer = CeNone
    /\ ce_inner = CeNone
    /\ ce_result = CeNone
    /\ ce_warned = {}
    /\ ce_error = ""
    /\ ce_third = CeNone
    /\ ce_left = CeNone
    /\ ce_right = CeNone
    /\ ce_pc = "idle"

CeInit ==
    /\ ce_attrib_a \in ColorAttribs
    /\ ce_attrib_b \in ColorAttribs
    /\ ce_outer = CeNone
    /\ ce_inner = CeNone
    /\ ce_result = CeNone
    /\ ce_warned = {}
    /\ ce_error = ""
    /\ ce_third = CeNone
    /\ ce_left = CeNone
    /\ ce_right = CeNone
    /\ ce_pc = "read_outer"

\* The warning and the exception of a call of from_xfl that gave `parsed`
\* for the descriptor attrib; an exception ends the component.
CeRead(attrib, parsed, next_pc) ==
    /\ ce_warned' = IF parsed.warned THEN ce_warned \cup {attrib} ELSE ce_warned
    /\ ce_error' = parsed.raised
    /\ ce_pc' = IF parsed.raised # "" THEN "raised" ELSE next_pc

\* outer = ColorEffect.from_xfl(a)
CeReadOuter ==
    /\ ce_pc = "read_outer"
    /\ ce_outer' = from_xfl(ce_attrib_a).effect
    /\ CeRead(ce_attrib_a, from_xfl(ce_attrib_a), "read_inner")
    /\ UNCHANGED <<ce_attrib_a, ce_attrib_b, ce_inner, ce_result, ce_third, ce_left,
                   ce_right, ceOthers>>

\* inner = ColorEffect.from_xfl(b)
CeReadInner ==
    /\ ce_pc = "read_inner"
    /\ ce_inner' = from_xfl(ce_attrib_b).effect
    /\ CeRead(ce_attrib_b, from_xfl(ce_attrib_b), "compose")
    /\ UNCHANGED <<ce_attrib_a, ce_attrib_b, ce_outer, ce_result, ce_third, ce_left,
                   ce_right, ceOthers>>

\* result = outer @ inner
CeCompose ==
    /\ ce_pc = "compose"
    /\ ce_result' = matmul(ce_outer, ce_inner)
    /\ ce_pc' = "done"
    /\ UNCHANGED <<ce_attrib_a, ce_attrib_b, ce_outer, ce_inner, ce_warned, ce_error,
                   ce_third, ce_left, ce_right, ceOthers>>

\* The effects that from_xfl makes of the descriptors without raising.
ParsedEffects ==
    {from_xfl(attrib).effect : attrib \in {a \in ColorAttribs : from_xfl(a).raised = ""}}

\* (outer @ inner) @ third and outer @ (inner @ third)
CeGroup ==
    /\ ce_pc = "done"
    /\ \E third \in ParsedEffects :
        /\ ce_third' = third
        /\ ce_left' = matmul(matmul(ce_outer, ce_inner), third)
        /\ ce_right' = matmul(ce_outer, matmul(ce_inner, third))
    /\ ce_pc' = "grouped"
    /\ UNCHANGED <<ce_attrib_a, ce_attrib_b, ce_outer, ce_inner, ce_result, ce_warned,
                   ce_error, ceOthers>>


(***************************************************************************)
(* xfl_reader.py: the length of a timeline.  A layer is a record with its  *)
(* frames, each frame with its index and duration.                         *)
(***************************************************************************)
Max(a, b) == IF a >= b THEN a ELSE b
Min(a, b) == IF a <= b THEN a ELSE b

\* The layers get_timeline_length looks at: <DOMLayer>s with a non-empty
\* <frames> element.
LayersWithFrames(layers) ==
    SelectSeq(layers, LAMBDA l : Len(l.frames) > 0)

\* index + duration of the last frame of a layer
LayerEnd(layer) ==
    layer.frames[Len(layer.frames)].index + layer.frames[Len(layer.frames)].duration

RECURSIVE MaxLayerEnd(_)
MaxLayerEnd(layers) ==
    IF Len(layers) = 1 THEN LayerEnd(layers[1])
    ELSE Max(LayerEnd(layers[1]), MaxLayerEnd(Tail(layers)))

\* get_timeline_length: None when no layer has a frame.
get_timeline_length(layers) ==
    LET with == LayersWithFrames(layers) IN
    IF Len(with) = 0 THEN [none |-> TRUE, v |-> 0]
    ELSE [none |-> FALSE, v |-> MaxLayerEnd(with)]

\* Timeline.last_frame as setup_timeline computes it, get_timeline_length(layers) - 1:
\* None - 1 raises TypeError.
TimelineLastFrame(layers) ==
    LET length == get_timeline_length(layers) IN
    IF length.none THEN [raised |-> "TypeError", v |-> 0]
    ELSE [raised |-> "", v |-> length.v - 1]

(***************************************************************************)
(* svg_renderer.py: SvgRenderer._get_loop_frame.  An instance is a record  *)
(* with the attributes of the <DOMSymbolInstance> and its child elements.  *)
(***************************************************************************)
\* `key in element`: an Element has no __contains__, so the test walks the
\* element's children and compares each child Element with the str `key`;
\* the two are never equal.
ChildEqualsStr(child, key) == FALSE
ElementContains(element, key) ==
    \E i \in DOMAIN element.children : ChildEqualsStr(element.children[i], key)

LoopReturn(frame, last_frame) ==
    [status |-> "returned", frame |-> frame, error |-> "", last_frame |-> last_frame]
LoopRaise(error, last_frame) ==
    [status |-> "raised", frame |-> -1, error |-> error, last_frame |-> last_frame]
LoopPending ==
    [status |-> "pending", frame |-> -1, error |-> "", last_frame |-> -1]

\* _get_loop_frame(instance, frame_offset), `layers` being the layers of the
\* timeline the instance refers to.  The record returned also tells the value
\* the local last_frame had.
get_loop_frame(instance, frame_offset, layers) ==
    LET first_frame == Get(instance.attrib, "firstFrame", 0)
        explicit == ElementContains(instance, "lastFrame")
        timeline == TimelineLastFrame(layers)
        last_frame == IF explicit THEN instance.attrib["lastFrame"] ELSE timeline.v
        loop_type == Get(instance.attrib, "loop", "single frame")
    IN  IF ~explicit /\ timeline.raised # "" THEN LoopRaise(timeline.raised, -1)
        ELSE IF loop_type = "single frame" THEN LoopReturn(first_frame, last_frame)
        ELSE IF loop_type = "loop" THEN
            LET loop_length == last_frame - first_frame + 1 IN
            IF loop_length <= 0 THEN LoopRaise("Invalid loop length", last_frame)
            ELSE LoopReturn(first_frame + (frame_offset % loop_length), last_frame)
        ELSE IF loop_type = "play once" THEN
            LoopReturn(Min(first_frame + frame_offset, last_frame), last_frame)
        ELSE LoopRaise("Unknown loop type", last_frame)

\* Frame indices and frame offsets of the model.
MaxFrame == 5
MaxOffset == 7

OptionalAttrib(key, values) == {<<>>} \cup {(key :> v) : v \in values}

LoopTypes == {"single frame", "loop", "play once", "movie clip"}

\* <DOMSymbolInstance> elements: firstFrame, lastFrame and loop are optional;
\* the only child is the optional <color>.
LoopInstances ==
    {[attrib |-> ("libraryItemName" :> "Symbol 1") @@ f @@ l @@ t, children |-> c] :
        f \in OptionalAttrib("firstFrame", 0..MaxFrame),
        l \in OptionalAttrib("lastFrame", 0..MaxFrame),
        t \in OptionalAttrib("loop", LoopTypes),
        c \in {<<>>, <<"color">>}}

KeyFrame(index, duration) == [index |-> index, duration |-> duration, elements |-> <<>>]
FramesLayer(frames) ==
    [layerType |-> "normal", parentLayerIndex |-> -1, frames |-> frames]

\* The referenced timeline: a layer without frames, or a layer of two
\* keyframes that ends at any frame up to MaxFrame.
LoopTimelines ==
    {<<FramesLayer(<<>>)>>}
    \cup {<<FramesLayer(<<>>), FramesLayer(<<KeyFrame(0, 1), KeyFrame(1, d)>>)>> :
            d \in 1..MaxFrame}

LfIdle ==
    /\ lf_instance = [attrib |-> <<>>, children |-> <<>>]
    /\ lf_layers = <<>>
    /\ lf_offset = 0
    /\ lf_result = LoopPending

LfInit ==
    /\ lf_instance \in LoopInstances
    /\ lf_layers \in LoopTimelines
    /\ lf_offset \in 0..MaxOffset
    /\ lf_result = LoopPending

\* self._get_loop_frame(element, frame_offset)
LfGetLoopFrame ==
    /\ lf_result.status = "pending"
    /\ lf_result' = get_loop_frame(lf_instance, lf_offset, lf_layers)
    /\ UNCHANGED <<lf_instance, lf_layers, lf_offset, lfOthers>>

(***************************************************************************)
(* shape/edge.py: tokens, numbers, point lists                             *)
(*                                                                         *)
(* A token is what EDGE_TOKENIZER.findall returns: a command character, a  *)
(* decimal literal (kept as its exact value) or a hex literal #H.h (kept   *)
(* as the value of H, the value of h and the number of digits of h).       *)
(***************************************************************************)
Cmd(c) == [t |-> c, num |-> <<0, 1>>, frac_digits |-> 0]
Dec(n) == [t |-> "dec", num |-> <<n, 1>>, frac_digits |-> 0]
Hex(int_part, frac_part, frac_digits) ==
    [t |-> "hex", num |-> <<int_part, frac_part>>, frac_digits |-> frac_digits]

Pow2_23 == 8388608
Pow2_24 == 16777216

\* int.from_bytes(_, "big", signed=True) of the four bytes HHHHHHhh: the
\* sign is the top bit of the three bytes H.
Signed32(int_part, frac) ==
    (IF int_part >= Pow2_23 THEN int_part - Pow2_24 ELSE int_part) * 256 + frac

\* A hex literal that is not six and two hex digits at most: its digits are
\* kept as text.
WideHex(int_text, frac_text) ==
    [t |-> "widehex", num |-> <<0, 1>>, frac_digits |-> Len(frac_text),
     int_text |-> int_text, frac_text |-> frac_text]

(***************************************************************************)
(* EDGE_TOKENIZER.  The "edges" attribute is a sequence of characters.     *)
(***************************************************************************)
CommandChars == {"!", "|", "/", "[", "]"}
DigitChars == Range(Digits)
\* [A-Z0-9]
HexTokenChars ==
    DigitChars \cup
    {"A", "B", "C", "D", "E", "F", "G", "H", "I", "J", "K", "L", "M", "N", "O", "P",
     "Q", "R", "S", "T", "U", "V", "W", "X", "Y", "Z"}

\* The index after the run of characters of `set` that begins at s[i].
RECURSIVE RunEnd(_, _, _)
RunEnd(s, i, set) ==
    IF i <= Len(s) /\ s[i] \in set THEN RunEnd(s, i + 1, set) ELSE i

\* (?<!S)-?\d+(?:\.\d+)? tried at s[i]: the index after the match, 0 when
\* there is none.
DecimalEnd(s, i) ==
    IF i > 1 /\ s[i - 1] = "S" THEN 0
    ELSE LET d == IF s[i] = "-" THEN i + 1 ELSE i
             e == RunEnd(s, d, DigitChars)
             f == IF e <= Len(s) /\ s[e] = "." THEN RunEnd(s, e + 1, DigitChars) ELSE e
         IN  IF e = d THEN 0 ELSE IF f > e + 1 THEN f ELSE e

\* \#[A-Z0-9]+\.[A-Z0-9]+ tried at s[i]: the index after the match, 0 when
\* there is none.
HexEnd(s, i) ==
    IF s[i] # "#" THEN 0
    ELSE LET e == RunEnd(s, i + 1, HexTokenChars)
             f == IF e <= Len(s) /\ s[e] = "." THEN RunEnd(s, e + 1, HexTokenChars) ELSE e
         IN  IF e = i + 1 \/ f <= e + 1 THEN 0 ELSE f

\* The number that the digits s[from], ..., s[to - 1] write in the base.
RECURSIVE NumberOf(_, _, _, _)
NumberOf(s, from, to, base) ==
    IF from >= to THEN 0
    ELSE NumberOf(s, from, to - 1, base) * base + HexDigitValue(s[to - 1])

RECURSIVE Pow(_, _)
Pow(b, n) == IF n = 0 THEN 1 ELSE b * Pow(b, n - 1)

\* The token of a decimal literal: the value float() gives it.
DecimalToken(text) ==
    LET start == IF text[1] = "-" THEN 2 ELSE 1
        dot == RunEnd(text, start, DigitChars)
        frac_len == IF dot > Len(text) THEN 0 ELSE Len(text) - dot
        n == NumberOf(text, start, dot, 10) * Pow(10, frac_len)
             + NumberOf(text, dot + 1, Len(text) + 1, 10)
    IN  [t |-> "dec", num |-> Rat(IF text[1] = "-" THEN -n ELSE n, Pow(10, frac_len)),
         frac_digits |-> 0]

\* The token of a hex literal "#H.h".
HexToken(text) ==
    LET dot == RunEnd(text, 2, HexTokenChars)
        int_text == SubSeq(text, 2, dot - 1)
        frac_text == SubSeq(text, dot + 1, Len(text))
    IN  IF /\ Range(int_text) \cup Range(frac_text) \subseteq HexDigitChars
           /\ Len(int_text) <= 6
           /\ Len(frac_text) <= 2
        THEN Hex(NumberOf(text, 2, dot, 16), NumberOf(text, dot + 1, Len(text) + 1, 16),
                 Len(frac_text))
        ELSE WideHex(int_text, frac_text)

\* EDGE_TOKENIZER.findall(edges) from s[i] on: at each character the three
\* alternatives are tried in order, and a character that begins no match is
\* passed over.
RECURSIVE findall_from(_, _)
findall_from(s, i) ==
    IF i > Len(s) THEN <<>>
    ELSE IF s[i] \in CommandChars THEN <<Cmd(s[i])>> \o findall_from(s, i + 1)
    ELSE IF s[i] \in DigitChars \cup {"-"} /\ DecimalEnd(s, i) # 0
    THEN <<DecimalToken(SubSeq(s, i, DecimalEnd(s, i) - 1))>>
         \o findall_from(s, DecimalEnd(s, i))
    ELSE IF HexEnd(s, i) # 0
    THEN <<HexToken(SubSeq(s, i, HexEnd(s, i) - 1))>> \o findall_from(s, HexEnd(s, i))
    ELSE findall_from(s, i + 1)

EDGE_TOKENIZER_findall(edges) == findall_from(edges, 1)

\* parse_number of a hex literal kept as text: bytes.fromhex raises
\* ValueError for a digit that is no hex digit and for an odd number of
\* digits; int.from_bytes reads all the bytes as one signed number.
parse_wide_hex(tok) ==
    LET int_len == IF Len(tok.int_text) > 6 THEN Len(tok.int_text) ELSE 6
        frac_len == IF Len(tok.frac_text) > 2 THEN Len(tok.frac_text) ELSE 2
        hex_num == NumberOf(tok.int_text, 1, Len(tok.int_text) + 1, 16) * Pow(16, frac_len)
                   + NumberOf(tok.frac_text, 1, Len(tok.frac_text) + 1, 16)
                     * Pow(16, frac_len - Len(tok.frac_text))
        num == IF hex_num >= Pow(16, int_len + frac_len) \div 2
               THEN hex_num - Pow(16, int_len + frac_len) ELSE hex_num
    IN  IF ~(Range(tok.int_text) \cup Range(tok.frac_text) \subseteq HexDigitChars)
           \/ (int_len + frac_len) % 2 = 1
        THEN [raised |-> "ValueError", v |-> R(0)]
        ELSE [raised |-> "", v |-> RDiv(Rat(num, 256), 20)]

\* parse_number: [raised, v].  A command character given as a number makes
\* float() raise ValueError.
parse_number(tok) ==
    IF tok.t = "widehex" THEN parse_wide_hex(tok)
    ELSE IF tok.t = "hex" THEN
        LET \* "{:>06}{:<02}": the fraction is padded on the right
            frac == IF tok.frac_digits = 1 THEN tok.num[2] * 16 ELSE tok.num[2]
            num == Signed32(tok.num[1] % Pow2_24, frac)
        IN  [raised |-> "", v |-> RDiv(Rat(num, 256), 20)]
    ELSE IF tok.t = "dec" THEN [raised |-> "", v |-> RDiv(tok.num, 20)]
    ELSE [raised |-> "ValueError", v |-> R(0)]

\* next_point() with the iterator at `pos` (the index of the next token):
\* [raised, p, pos].  The first number is parsed before the second token is
\* taken.
next_point(tokens, pos) ==
    IF pos > Len(tokens) THEN [raised |-> "StopIteration", p |-> <<>>, pos |-> pos]
    ELSE LET x == parse_number(tokens[pos]) IN
         IF x.raised # "" THEN [raised |-> x.raised, p |-> <<>>, pos |-> pos + 1]
         ELSE IF pos + 1 > Len(tokens)
         THEN [raised |-> "StopIteration", p |-> <<>>, pos |-> pos + 1]
         ELSE LET y == parse_number(tokens[pos + 1]) IN
              IF y.raised # "" THEN [raised |-> y.raised, p |-> <<>>, pos |-> pos + 2]
              ELSE [raised |-> "", p |-> <<x.v, y.v>>, pos |-> pos + 2]

\* An entry of a point list: a point, or a control point (a point in a tuple).
\* A point in real units.
Point(x, y) == <<R(x), R(y)>>

Pt(p) == [ctrl |-> FALSE, p |-> p]
Ctrl(p) == [ctrl |-> TRUE, p |-> p]

\* The state of the generator after a step.
DecState(pos, point_list, prev_point, segments, pc, error) ==
    [pos |-> pos, point_list |-> point_list, prev_point |-> prev_point,
     segments |-> segments, pc |-> pc, error |-> error]

\* A slip in the move command: the new point is compared with the start of
\* the point list, not with the current point.
moveto_compares_start(point_list, prev_point, curr_point, segments) ==
    IF curr_point # point_list[1].p
    THEN [point_list |-> <<Pt(curr_point)>>, prev_point |-> curr_point,
          segments |-> Append(segments, point_list)]
    ELSE [point_list |-> point_list, prev_point |-> prev_point, segments |-> segments]

\* Lines 181-189, the command "!": a move that changes the current point
\* yields the point list and begins a new one.
moveto(point_list, prev_point, curr_point, segments) ==
    IF curr_point # prev_point
    THEN [point_list |-> <<Pt(curr_point)>>, prev_point |-> curr_point,
          segments |-> Append(segments, point_list)]
    ELSE [point_list |-> point_list, prev_point |-> prev_point, segments |-> segments]

\* `command in "|/"`: a substring test, true of the two line commands.
IsLineCommand(tok) == tok.t \in {"|", "/"}

\* Lines 166-174: the generator up to the loop.  An exception here is
\* outside the try: a StopIteration leaves the generator as RuntimeError.
decode_start(tokens) ==
    IF Len(tokens) = 0 THEN DecState(1, <<>>, <<>>, <<>>, "raised", "RuntimeError")
    ELSE IF tokens[1].t # "!"
    THEN DecState(2, <<>>, <<>>, <<>>, "raised", "AssertionError")
    ELSE LET pt == next_point(tokens, 2) IN
         IF pt.raised = "StopIteration"
         THEN DecState(pt.pos, <<>>, <<>>, <<>>, "raised", "RuntimeError")
         ELSE IF pt.raised # ""
         THEN DecState(pt.pos, <<>>, <<>>, <<>>, "raised", pt.raised)
         ELSE DecState(pt.pos, <<Pt(pt.p)>>, pt.p, <<>>, "loop", "")

\* Lines 177-201: one turn of the loop.  StopIteration yields the point list
\* in progress and ends the generator; another exception leaves it.
decode_command(tokens, pos, point_list, prev_point, segments) ==
    IF pos > Len(tokens)
    THEN DecState(pos, point_list, prev_point, Append(segments, point_list), "done", "")
    ELSE
    LET command == tokens[pos]
        curr == next_point(tokens, pos + 1)
    IN  IF curr.raised = "StopIteration"
        THEN DecState(curr.pos, point_list, prev_point,
                      Append(segments, point_list), "done", "")
        ELSE IF curr.raised # ""
        THEN DecState(curr.pos, point_list, prev_point, segments, "raised", curr.raised)
        ELSE IF command.t = "!" THEN
            LET mv == moveto(point_list, prev_point, curr.p, segments) IN
            DecState(curr.pos, mv.point_list, mv.prev_point, mv.segments, "loop", "")
        ELSE IF IsLineCommand(command) THEN
            DecState(curr.pos, Append(point_list, Pt(curr.p)), curr.p, segments, "loop", "")
        ELSE
            LET with_ctrl == Append(point_list, Ctrl(curr.p))
                dest == next_point(tokens, curr.pos)
            IN  IF dest.raised = "StopIteration"
                THEN DecState(dest.pos, with_ctrl, prev_point,
                              Append(segments, with_ctrl), "done", "")
                ELSE IF dest.raised # ""
                THEN DecState(dest.pos, with_ctrl, prev_point, segments,
                              "raised", dest.raised)
                ELSE DecState(dest.pos, Append(with_ctrl, Pt(dest.p)), dest.p,
                              segments, "loop", "")

(***************************************************************************)
(* point_list_to_path_format.  A path is the list of strings that is       *)
(* joined with spaces: command letters and points.                         *)
(***************************************************************************)
PathCmd(c) == [c |-> c, p |-> <<>>]
PathPt(p) == [c |-> "", p |-> p]

\* The loop of point_list_to_path_format from entry i on.
RECURSIVE PathFrom(_, _, _)
PathFrom(point_list, i, last_command) ==
    IF i > Len(point_list) THEN <<>>
    ELSE
    LET point == point_list[i]
        command == IF point.ctrl THEN "Q" ELSE "L"
        letter == IF command # last_command THEN <<PathCmd(command)>> ELSE <<>>
    IN  IF command = "Q" THEN
            IF i + 1 > Len(point_list) THEN letter \o <<PathPt(point.p)>>
            ELSE letter \o <<PathPt(point.p), PathPt(point_list[i + 1].p)>>
                 \o PathFrom(point_list, i + 2, command)
        ELSE letter \o <<PathPt(point.p)>> \o PathFrom(point_list, i + 1, command)

\* shape/edge.py point_list_to_path_format: "Z" closes a point list whose
\* first and last entries are equal.
point_list_to_path_format(point_list) ==
    <<PathCmd("M"), PathPt(point_list[1].p)>>
    \o PathFrom(point_list, 2, "M")
    \o (IF point_list[1] = point_list[Len(point_list)] THEN <<PathCmd("Z")>> ELSE <<>>)

\* shape/shape.py point_list_to_path_format: the same, with the append of
\* "Z" commented out.
shape_point_list_to_path_format(point_list) ==
    <<PathCmd("M"), PathPt(point_list[1].p)>> \o PathFrom(point_list, 2, "M")

(***************************************************************************)
(* The decoder component: an "edges" attribute is tokenized and the        *)
(* generator is run to its end.                                            *)
(***************************************************************************)
\* The number of commands that follow the first move in the edges the model
\* generates.
MaxCommands == 3

\* Corner coordinates, in twips.
Twips == {0, 200}
MoveGroups == {<<Cmd("!"), Dec(x), Dec(y)>> : x \in Twips, y \in Twips}
LineGroups ==
    {<<Cmd("|"), Dec(x), Dec(y)>> : x \in Twips, y \in Twips}
    \cup {<<Cmd("/"), Hex(200, 0, 1), Hex(0, 0, 2)>>}
QuadGroups == {<<Cmd("["), Dec(100), Dec(100), Dec(x), Dec(200)>> : x \in Twips}
CommandGroups == MoveGroups \cup LineGroups \cup QuadGroups

RECURSIVE EdgesOfLength(_)
EdgesOfLength(n) ==
    IF n = 0 THEN MoveGroups
    ELSE {e \o g : e \in EdgesOfLength(n - 1), g \in CommandGroups}

\* "!0 0|200 0|200 200|0 200!0 0"
SquareWithMoveBack ==
    <<Cmd("!"), Dec(0), Dec(0), Cmd("|"), Dec(200), Dec(0), Cmd("|"), Dec(200), Dec(200),
      Cmd("|"), Dec(0), Dec(200), Cmd("!"), Dec(0), Dec(0)>>
\* "!0 0|200 0|200 200|0 200|0 0"
SquareWithLineBack ==
    <<Cmd("!"), Dec(0), Dec(0), Cmd("|"), Dec(200), Dec(0), Cmd("|"), Dec(200), Dec(200),
      Cmd("|"), Dec(0), Dec(200), Cmd("|"), Dec(0), Dec(0)>>
\* Edges that are not of the grammar: empty, no move first, cut short, a
\* negative hex number
OtherEdges ==
    {<<>>,
     <<Cmd("|"), Dec(0), Dec(0)>>,
     <<Cmd("!"), Dec(0)>>,
     <<Cmd("!"), Dec(0), Dec(0), Cmd("["), Dec(100), Dec(100), Dec(200)>>,
     <<Cmd("!"), Dec(0), Dec(0), Cmd("["), Dec(100), Dec(100)>>,
     <<Cmd("!"), Dec(0), Dec(0), Cmd("|"), Cmd("|"), Dec(0)>>,
     <<Cmd("!"), Hex(16777016, 0, 2), Dec(0), Cmd("|"), Dec(-200), Dec(0)>>}

Edges ==
    UNION {EdgesOfLength(n) : n \in 0..MaxCommands}
    \cup {SquareWithMoveBack, SquareWithLineBack}
    \cup OtherEdges

\* The text of a number, and of the tokens of an edge: a space parts two
\* numbers.
RECURSIVE NumberText(_, _)
NumberText(n, digits) ==
    IF n < 0 THEN <<"-">> \o NumberText(-n, digits)
    ELSE IF n < Len(digits) THEN <<digits[n + 1]>>
    ELSE NumberText(n \div Len(digits), digits) \o <<digits[(n % Len(digits)) + 1]>>

TokenText(tok) ==
    IF tok.t = "dec" THEN NumberText(tok.num[1], Digits)
    ELSE IF tok.t = "hex"
    THEN <<"#">> \o NumberText(tok.num[1], Digits \o UpperHex) \o <<".">>
         \o (IF tok.frac_digits = 2 /\ tok.num[2] < 16 THEN <<"0">> ELSE <<>>)
         \o NumberText(tok.num[2], Digits \o UpperHex)
    ELSE <<tok.t>>

RECURSIVE EdgeText(_, _)
EdgeText(tokens, n) ==
    IF n > Len(tokens) THEN <<>>
    ELSE (IF n > 1 /\ tokens[n].t \in {"dec", "hex"} /\ tokens[n - 1].t \in {"dec", "hex"}
          THEN <<" ">> ELSE <<>>)
         \o TokenText(tokens[n]) \o EdgeText(tokens, n + 1)

\* Edges whose tokens do not begin with a move: "", "|0 0", "0 0|200 0".
NoMoveFirstEdges ==
    {<<>>,
     <<"|", "0", " ", "0">>,
     <<"0", " ", "0", "|", "2", "0", "0", " ", "0">>}

\* Edges with a numeric literal that is none of the format:
\* "!0 0|#GG.0 0", "!0 0|#FF 0", "!0 0|1e5 0", "!0 0|12a 0", "!0 0|-.5 0S1".
BadNumberEdges ==
    {<<"!", "0", " ", "0", "|", "#", "G", "G", ".", "0", " ", "0">>,
     <<"!", "0", " ", "0", "|", "#", "F", "F", " ", "0">>,
     <<"!", "0", " ", "0", "|", "1", "e", "5", " ", "0">>,
     <<"!", "0", " ", "0", "|", "1", "2", "a", " ", "0">>,
     <<"!", "0", " ", "0", "|", "-", ".", "5", " ", "0", "S", "1">>}

\* The "edges" attributes the decoder is given.
EdgeTexts ==
    {EdgeText(e, 1) : e \in Edges} \cup NoMoveFirstEdges \cup BadNumberEdges

DecIdle ==
    /\ dec_edges = <<>>
    /\ dec_tokens = <<>>
    /\ dec_pos = 1
    /\ dec_point_list = <<>>
    /\ dec_prev_point = <<>>
    /\ dec_segments = <<>>
    /\ dec_reversed = <<>>
    /\ dec_pc = "idle"
    /\ dec_error = ""

DecInit ==
    /\ dec_edges \in EdgeTexts
    /\ dec_tokens = <<>>
    /\ dec_pos = 1
    /\ dec_point_list = <<>>
    /\ dec_prev_point = <<>>
    /\ dec_segments = <<>>
    /\ dec_reversed = <<>>
    /\ dec_pc = "tokenize"
    /\ dec_error = ""

\* tokens = iter(EDGE_TOKENIZER.findall(edges))
DecTokenize ==
    /\ dec_pc = "tokenize"
    /\ dec_tokens' = EDGE_TOKENIZER_findall(dec_edges)
    /\ dec_pc' = "start"
    /\ UNCHANGED <<dec_edges, dec_pos, dec_point_list, dec_prev_point, dec_segments,
                   dec_reversed, dec_error, decOthers>>

DecGoto(st) ==
    /\ dec_pos' = st.pos
    /\ dec_point_list' = st.point_list
    /\ dec_prev_point' = st.prev_point
    /\ dec_segments' = st.segments
    /\ dec_pc' = st.pc
    /\ dec_error' = st.error
    /\ UNCHANGED <<dec_edges, dec_tokens, dec_reversed, decOthers>>

\* The generator runs to its loop.
DecStart ==
    /\ dec_pc = "start"
    /\ DecGoto(decode_start(dec_tokens))

\* One command is read and applied.
DecCommand ==
    /\ dec_pc = "loop"
    /\ DecGoto(decode_command(dec_tokens, dec_pos, dec_point_list, dec_prev_point,
                              dec_segments))

\* A reversal of the points that leaves the control marks where they were.
reversed_marks_in_place(point_list) ==
    [i \in 1..Len(point_list) |->
        [ctrl |-> point_list[i].ctrl, p |-> point_list[Len(point_list) + 1 - i].p]]

\* list(reversed(point_list))
reversed(point_list) ==
    [i \in 1..Len(point_list) |-> point_list[Len(point_list) + 1 - i]]

\* xfl_edge_to_svg_path, for an edge with a fill on its right: every point
\* list the generator yielded is reversed.
DecReverse ==
    /\ dec_pc = "done"
    /\ dec_reversed' = [i \in 1..Len(dec_segments) |-> reversed(dec_segments[i])]
    /\ dec_pc' = "reversed"
    /\ UNCHANGED <<dec_edges, dec_tokens, dec_pos, dec_point_list, dec_prev_point,
                   dec_segments, dec_error, decOthers>>

(***************************************************************************)
(* shape/edge.py: point_lists_to_shapes, the shape assembler.              *)
(*                                                                         *)
(* A Python dict is modelled by its keys in insertion order and the value  *)
(* of each key, in the same order.                                         *)
(***************************************************************************)
EmptyDict == [keys |-> <<>>, vals |-> <<>>]

DictHas(d, k) == \E n \in 1..Len(d.keys) : d.keys[n] = k

DictIndex(d, k) == CHOOSE n \in 1..Len(d.keys) : d.keys[n] = k

DictGet(d, k) == d.vals[DictIndex(d, k)]

DictSet(d, k, v) ==
    IF DictHas(d, k)
    THEN [d EXCEPT !.vals[DictIndex(d, k)] = v]
    ELSE [keys |-> Append(d.keys, k), vals |-> Append(d.vals, v)]

\* defaultdict.__getitem__: a missing key is inserted with the default.
DefaultDictTouch(d, k, default) ==
    IF DictHas(d, k) THEN d ELSE DictSet(d, k, default)

\* del lst[i] and lst.pop(), with i counted from 0 as in the code.
DelAt(lst, i) == SubSeq(lst, 1, i) \o SubSeq(lst, i + 2, Len(lst))

Last(lst) == lst[Len(lst)]

Front(lst) == SubSeq(lst, 1, Len(lst) - 1)

\* One pass of the loop that fills graph and shapes from the input.
add_point_list(point_list, fill, graph, shapes) ==
    IF point_list[1] = Last(point_list)
    THEN \* this point list is already a closed shape
         LET s == DefaultDictTouch(shapes, fill, <<>>)
         IN  [graph |-> graph,
              shapes |-> DictSet(s, fill, Append(DictGet(s, fill), point_list))]
    ELSE LET g == DefaultDictTouch(graph, fill, EmptyDict)
             fg == DefaultDictTouch(DictGet(g, fill), point_list[1], <<>>)
         IN  [graph |-> DictSet(g, fill,
                            DictSet(fg, point_list[1],
                                Append(DictGet(fg, point_list[1]), point_list))),
              shapes |-> shapes]

\* A value that may be None.
PyNone == [some |-> FALSE, v |-> <<>>]
Some(v) == [some |-> TRUE, v |-> v]

\* The frame of one call of walk(): its curr_point, the index i of its for
\* loop and the length the range was made with.
WalkFrame(curr_point, n) == [curr_point |-> curr_point, i |-> 0, n |-> n]

SameIndex(i) == i

\* for i in range(...): the next index.
NextIndex(i) == i + 1

concat_keeping_start(point_list, shape) == point_list \o shape

\* next_point_list + shape[1:] and point_list + shape[1:]
concat_shape(point_list, shape) == point_list \o Tail(shape)

\* Bound of the inputs: the number of (point list, fill style ID) pairs.
MaxSegments == 4

PA == Pt(Point(0, 0))
PB == Pt(Point(10, 0))
PC == Pt(Point(10, 10))

\* The pairs an input is made of: straight segments among three points, a
\* segment with a quadratic curve, a segment that is already closed, and
\* two segments of a second fill style.
PointListChoices ==
    {<<<<PA, PB>>, "1">>, <<<<PB, PA>>, "1">>, <<<<PB, PC>>, "1">>,
     <<<<PC, PB>>, "1">>, <<<<PC, PA>>, "1">>,
     <<<<PA, Ctrl(Point(5, 5)), PB>>, "1">>,
     <<<<PA, PB, PA>>, "1">>,
     <<<<PA, PB>>, "2">>, <<<<PB, PA>>, "2">>}

PointLists == UNION {[1..n -> PointListChoices] : n \in 0..MaxSegments}

SaIdle ==
    /\ sa_point_lists = <<>>
    /\ sa_graph = EmptyDict
    /\ sa_shapes = EmptyDict
    /\ sa_iter = [input |-> 0, fill |-> 0, origin |-> 0, size |-> 0]
    /\ sa_origin = <<>>
    /\ sa_point_list = <<>>
    /\ sa_used_points = {}
    /\ sa_stack = <<>>
    /\ sa_shape = PyNone
    /\ sa_backtracked = FALSE
    /\ sa_pc = "idle"

SaInit ==
    /\ sa_point_lists \in PointLists
    /\ sa_graph = EmptyDict
    /\ sa_shapes = EmptyDict
    /\ sa_iter = [input |-> 0, fill |-> 0, origin |-> 0, size |-> 0]
    /\ sa_origin = <<>>
    /\ sa_point_list = <<>>
    /\ sa_used_points = {}
    /\ sa_stack = <<>>
    /\ sa_shape = PyNone
    /\ sa_backtracked = FALSE
    /\ sa_pc = "start"

\* The fill graph the loops are working on, and its fill style ID.
current_fill_id == sa_graph.keys[sa_iter.fill]
fill_graph == sa_graph.vals[sa_iter.fill]

\* The fill graph is replaced in graph.
WithFillGraph(fg) == [sa_graph EXCEPT !.vals[sa_iter.fill] = fg]

\* A call of walk(curr_point, ...): evaluating range(len(fill_graph[curr_point]))
\* inserts curr_point into the defaultdict when it is missing.
CallWalk(curr_point, fg, stack) ==
    LET touched == DefaultDictTouch(fg, curr_point, <<>>)
    IN  /\ sa_graph' = WithFillGraph(touched)
        /\ sa_stack' = Append(stack, WalkFrame(curr_point, Len(DictGet(touched, curr_point))))
        /\ sa_pc' = "walk"

\* A call of walk() returns shape to its caller: another call of walk(), or
\* the while loop when it was the first call.
ReturnFromWalk(shape) ==
    /\ sa_shape' = shape
    /\ sa_stack' = Front(sa_stack)
    /\ sa_pc' = IF Len(sa_stack) = 1 THEN "assert" ELSE "return"

\* Lines 324-329: for point_list, current_fill_id in point_lists, one pass.
SaAddPointList ==
    /\ sa_pc = "start"
    /\ IF sa_iter.input < Len(sa_point_lists)
       THEN LET pair == sa_point_lists[sa_iter.input + 1]
                r == add_point_list(pair[1], pair[2], sa_graph, sa_shapes)
            IN  /\ sa_graph' = r.graph
                /\ sa_shapes' = r.shapes
                /\ sa_iter' = [sa_iter EXCEPT !.input = sa_iter.input + 1]
                /\ UNCHANGED sa_pc
       ELSE /\ sa_pc' = "fills"
            /\ UNCHANGED <<sa_graph, sa_shapes, sa_iter>>
    /\ UNCHANGED <<sa_point_lists, sa_origin, sa_point_list,
                   sa_used_points, sa_stack, sa_shape, sa_backtracked, saOthers>>

\* Line 355: for current_fill_id, fill_graph in graph.items(), and the return when the
\* items are exhausted.
SaNextFill ==
    /\ sa_pc = "fills"
    /\ IF sa_iter.fill < Len(sa_graph.keys)
       THEN /\ sa_iter' = [sa_iter EXCEPT !.fill = sa_iter.fill + 1, !.origin = 0,
                           !.size = Len(sa_graph.vals[sa_iter.fill + 1].keys)]
            /\ sa_pc' = "origins"
       ELSE /\ sa_pc' = "returned"
            /\ UNCHANGED sa_iter
    /\ UNCHANGED <<sa_point_lists, sa_graph, sa_shapes, sa_origin, sa_point_list,
                   sa_used_points, sa_stack, sa_shape, sa_backtracked, saOthers>>

\* Line 356: for origin in fill_graph.keys().  The iterator raises when the
\* dict has another size than when the iteration began.
SaNextOrigin ==
    /\ sa_pc = "origins"
    /\ IF Len(fill_graph.keys) # sa_iter.size
       THEN /\ sa_pc' = "RuntimeError"
            /\ UNCHANGED <<sa_iter, sa_origin>>
       ELSE IF sa_iter.origin < Len(fill_graph.keys)
       THEN /\ sa_iter' = [sa_iter EXCEPT !.origin = sa_iter.origin + 1]
            /\ sa_origin' = fill_graph.keys[sa_iter.origin + 1]
            /\ sa_pc' = "while"
       ELSE /\ sa_pc' = "fills"
            /\ UNCHANGED <<sa_iter, sa_origin>>
    /\ UNCHANGED <<sa_point_lists, sa_graph, sa_shapes, sa_point_list,
                   sa_used_points, sa_stack, sa_shape, sa_backtracked, saOthers>>

\* Lines 357-361: while fill_graph[origin]: pop a point list and call walk().
SaWhile ==
    /\ sa_pc = "while"
    /\ IF DictGet(fill_graph, sa_origin) = <<>>
       THEN /\ sa_pc' = "origins"
            /\ UNCHANGED <<sa_graph, sa_point_list, sa_used_points, sa_stack>>
       ELSE LET lst == DictGet(fill_graph, sa_origin)
                point_list == Last(lst)
                curr_point == Last(point_list)
            IN  /\ sa_point_list' = point_list
                /\ sa_used_points' = {sa_origin, curr_point}
                /\ CallWalk(curr_point, DictSet(fill_graph, sa_origin, Front(lst)), <<>>)
    /\ UNCHANGED <<sa_point_lists, sa_shapes, sa_iter, sa_origin, sa_shape,
                   sa_backtracked, saOthers>>

\* Lines 333-344: one pass of the for loop of the innermost call of walk(),
\* up to its return or its recursive call.
SaWalk ==
    /\ sa_pc = "walk"
    /\ LET frame == Last(sa_stack)
           lst == DictGet(fill_graph, frame.curr_point)
       IN  IF frame.i >= frame.n
           THEN \* the loop is over: walk() returns None
                /\ ReturnFromWalk(PyNone)
                /\ UNCHANGED <<sa_graph, sa_used_points>>
           ELSE LET next_point_list == lst[frame.i + 1]
                    end_point == Last(next_point_list)
                IN  IF end_point = sa_origin
                    THEN /\ sa_graph' = WithFillGraph(
                                DictSet(fill_graph, frame.curr_point, DelAt(lst, frame.i)))
                         /\ ReturnFromWalk(Some(next_point_list))
                         /\ UNCHANGED sa_used_points
                    ELSE IF end_point \notin sa_used_points
                    THEN /\ sa_used_points' = sa_used_points \cup {end_point}
                         /\ CallWalk(end_point, fill_graph, sa_stack)
                         /\ UNCHANGED sa_shape
                    ELSE /\ sa_stack' = [sa_stack EXCEPT ![Len(sa_stack)].i = NextIndex(frame.i)]
                         /\ UNCHANGED <<sa_graph, sa_used_points, sa_shape, sa_pc>>
    /\ UNCHANGED <<sa_point_lists, sa_shapes, sa_iter, sa_origin, sa_point_list,
                   sa_backtracked, saOthers>>

\* Lines 345-351: a recursive call has returned shape to the call of walk()
\* that made it.
SaWalkReturn ==
    /\ sa_pc = "return"
    /\ LET frame == Last(sa_stack)
           lst == DictGet(fill_graph, frame.curr_point)
           next_point_list == lst[frame.i + 1]
           end_point == Last(next_point_list)
       IN  IF ~sa_shape.some
           THEN \* backtrack
                /\ sa_used_points' = sa_used_points \ {end_point}
                /\ sa_stack' = [sa_stack EXCEPT ![Len(sa_stack)].i = NextIndex(frame.i)]
                /\ sa_pc' = "walk"
                /\ sa_backtracked' = TRUE
                /\ UNCHANGED <<sa_graph, sa_shape>>
           ELSE /\ sa_graph' = WithFillGraph(
                       DictSet(fill_graph, frame.curr_point, DelAt(lst, frame.i)))
                /\ ReturnFromWalk(Some(concat_shape(next_point_list, sa_shape.v)))
                /\ UNCHANGED <<sa_used_points, sa_backtracked>>
    /\ UNCHANGED <<sa_point_lists, sa_shapes, sa_iter, sa_origin, sa_point_list,
                   saOthers>>

\* Lines 362-364: the first call of walk() has returned.  The assert raises
\* AssertionError; when asserts are compiled out (python -O), shape[1:] of
\* None raises TypeError.
SaAssert ==
    /\ sa_pc = "assert"
    /\ IF ~sa_shape.some
       THEN /\ sa_pc' \in {"AssertionError", "TypeError"}
            /\ UNCHANGED sa_shapes
       ELSE LET s == DefaultDictTouch(sa_shapes, current_fill_id, <<>>)
            IN  /\ sa_shapes' = DictSet(s, current_fill_id,
                       Append(DictGet(s, current_fill_id), concat_shape(sa_point_list, sa_shape.v)))
                /\ sa_pc' = "while"
    /\ UNCHANGED <<sa_point_lists, sa_graph, sa_iter, sa_origin, sa_point_list,
                   sa_used_points, sa_stack, sa_shape, sa_backtracked, saOthers>>

(***************************************************************************)
(* XML elements, names and dicts of the reader and the renderer.           *)
(* A timeline name is the sequence of its characters.                      *)
(***************************************************************************)
El(tag, attrib, children) == [tag |-> tag, attrib |-> attrib, children |-> children]

RECURSIVE JoinChars(_)
JoinChars(chars) ==
    IF chars = <<>> THEN "" ELSE Head(chars) \o JoinChars(Tail(chars))

\* d.update(e)
RECURSIVE DictUpdateFrom(_, _, _)
DictUpdateFrom(d, e, n) ==
    IF n > Len(e.keys) THEN d
    ELSE DictUpdateFrom(DictSet(d, e.keys[n], e.vals[n]), e, n + 1)

DictUpdate(d, e) == DictUpdateFrom(d, e, 1)

(***************************************************************************)
(* util.py                                                                 *)
(***************************************************************************)
IDENTITY_MATRIX == <<"1", "0", "0", "1", "0", "0">>

\* chr(n), for the codes the model meets; another code is kept as written.
Chr(n) ==
    IF n = 32 THEN " "
    ELSE IF n = 38 THEN "&"
    ELSE IF n \in 48..57 THEN ToString(n - 48)
    ELSE "chr(" \o ToString(n) \o ")"

\* The number a run of digits s[from..to] denotes.
RECURSIVE DigitsValue(_, _, _)
DigitsValue(s, from, to) ==
    IF to < from THEN 0
    ELSE 10 * DigitsValue(s, from, to - 1) + (IndexOf(Digits, s[to]) - 1)

\* The end of the longest run of digits that starts at s[from].
RECURSIVE DigitsEnd(_, _)
DigitsEnd(s, from) ==
    IF from + 1 <= Len(s) /\ s[from + 1] \in Range(Digits) THEN DigitsEnd(s, from + 1)
    ELSE from

\* unescape_entities: every "&#" followed by digits becomes the character of
\* that code.
RECURSIVE unescape_from(_, _)
unescape_from(s, n) ==
    IF n > Len(s) THEN <<>>
    ELSE IF s[n] = "&" /\ n + 2 <= Len(s) /\ s[n + 1] = "#" /\ s[n + 2] \in Range(Digits)
    THEN LET to == DigitsEnd(s, n + 2)
         IN  <<Chr(DigitsValue(s, n + 2, to))>> \o unescape_from(s, to + 1)
    ELSE <<s[n]>> \o unescape_from(s, n + 1)

unescape_entities(s) == unescape_from(s, 1)

\* get_matrix
get_matrix(element) ==
    IF Len(element.children) > 0 /\ element.children[1].tag = "matrix"
    THEN LET matrix == element.children[1].children[1].attrib
         IN  <<Get(matrix, "a", "1"), Get(matrix, "b", "0"), Get(matrix, "c", "0"),
               Get(matrix, "d", "1"), Get(matrix, "tx", "0"), Get(matrix, "ty", "0")>>
    ELSE IDENTITY_MATRIX

(***************************************************************************)
(* xfl_reader.py: XflReader.get_timeline and setup_timeline.  The reader   *)
(* is the record rd: scenes maps each scene name to its layers, or to its  *)
(* Timeline once set up; symbols holds the Timelines of the symbols that   *)
(* were set up.                                                            *)
(***************************************************************************)
MASK_START == "{xfl2svg}maskStart"

Timeline(layers, last_frame) == [layers |-> layers, last_frame |-> last_frame]

\* The loop of setup_timeline from layers[n] on (n counts from 1; the code's
\* index is n - 1); mask_idx is -1 for None.
RECURSIVE mark_layers(_, _, _)
mark_layers(layers, n, mask_idx) ==
    IF n > Len(layers) THEN layers
    ELSE IF mask_idx = -1
    THEN mark_layers(layers, n + 1,
             IF Get(layers[n].attrib, "layerType", "") = "mask" THEN n - 1 ELSE -1)
    ELSE IF n = Len(layers)
            \/ Get(layers[n + 1].attrib, "parentLayerIndex", -1) < mask_idx
    THEN mark_layers(
             [layers EXCEPT ![n].attrib = (MASK_START :> mask_idx) @@ layers[n].attrib],
             n + 1, -1)
    ELSE mark_layers(layers, n + 1, mask_idx)

\* Timeline(layers, get_timeline_length(layers) - 1), or the exception of
\* the subtraction; the layers stay marked either way.
SetupResult(marked, last) ==
    [layers |-> marked, raised |-> last.raised, timeline |-> Timeline(marked, last.v)]

TimelineOfMarked(marked) == SetupResult(marked, TimelineLastFrame(marked))

\* setup_timeline
setup_timeline(layers) == TimelineOfMarked(mark_layers(layers, 1, -1))

GetTimelineResult(rd, raised, timeline) ==
    [rd |-> rd, raised |-> raised, timeline |-> timeline]

NoTimeline == Timeline(<<>>, -1)

\* path.replace("&", "_")
replace_amp(path) == [n \in 1..Len(path) |-> IF path[n] = "&" THEN "_" ELSE path[n]]

\* self.scenes[name] = setup_timeline(self.scenes[name]), s being what
\* setup_timeline returns or raises.
SceneSetUp(rd, name, s) ==
    IF s.raised # ""
    THEN GetTimelineResult([rd EXCEPT !.scenes[name].layers = s.layers], s.raised,
                           NoTimeline)
    ELSE GetTimelineResult(
             [rd EXCEPT !.scenes[name] =
                 [is_timeline |-> TRUE, layers |-> s.timeline.layers,
                  last_frame |-> s.timeline.last_frame]],
             "", s.timeline)

\* self.symbols[name] = setup_timeline(symbol.find(".//{*}layers"))
SymbolSetUp(rd, name, s) ==
    IF s.raised # "" THEN GetTimelineResult(rd, s.raised, NoTimeline)
    ELSE GetTimelineResult([rd EXCEPT !.symbols = (name :> s.timeline) @@ rd.symbols],
                           "", s.timeline)

\* XflReader.get_timeline(name, type).  symbol_paths holds the names of the
\* symbols the document includes, symbol_files the layers of the symbol
\* files that exist (a file is named after its symbol).
get_timeline(rd, name, type) ==
    IF type = "scene" THEN
        IF name \notin DOMAIN rd.scenes
        THEN GetTimelineResult(rd, "Scene does not exist", NoTimeline)
        ELSE IF ~rd.scenes[name].is_timeline
        THEN SceneSetUp(rd, name, setup_timeline(rd.scenes[name].layers))
        ELSE GetTimelineResult(rd, "",
                 Timeline(rd.scenes[name].layers, rd.scenes[name].last_frame))
    ELSE IF type = "symbol" THEN
        IF name \in DOMAIN rd.symbols THEN GetTimelineResult(rd, "", rd.symbols[name])
        ELSE IF name \notin rd.symbol_paths
        THEN GetTimelineResult(rd, "Symbol does not exist", NoTimeline)
        ELSE IF name \notin DOMAIN rd.symbol_files
                /\ replace_amp(name) \notin DOMAIN rd.symbol_files
        THEN GetTimelineResult(rd, "Couldn't find XML file", NoTimeline)
        ELSE SymbolSetUp(rd, name,
                 setup_timeline(rd.symbol_files[IF name \in DOMAIN rd.symbol_files
                                                THEN name ELSE replace_amp(name)]))
    ELSE GetTimelineResult(rd, "Timeline type must be \"scene\" or \"symbol\"", NoTimeline)

(***************************************************************************)
(* shape/shape.py and shape/style.py: a <DOMShape> becomes SVG <path>s.    *)
(***************************************************************************)
\* xfl_edge_to_shapes: the path data of each fill style and each stroke
\* style of the <edges> element, in the order the styles first occur.  The
\* path data of an edge stands for what decoding and assembling its "edges"
\* attribute gives.
AddPath(d, key, path) ==
    IF DictHas(d, key) THEN DictSet(d, key, DictGet(d, key) \o " " \o path)
    ELSE DictSet(d, key, path)

AddEdge(d, edge, key) ==
    IF Has(edge, key) THEN AddPath(d, edge[key], "path(" \o edge["edges"] \o ")") ELSE d

RECURSIVE edge_paths(_, _, _, _)
edge_paths(edge_list, n, keys, d) ==
    IF n > Len(edge_list) THEN d
    ELSE edge_paths(edge_list, n + 1, keys,
             IF Len(keys) = 1 THEN AddEdge(d, edge_list[n].attrib, keys[1])
             ELSE AddEdge(AddEdge(d, edge_list[n].attrib, keys[1]),
                          edge_list[n].attrib, keys[2]))

xfl_edge_to_shapes(edges) ==
    [shapes |-> edge_paths(edges.children, 1, <<"fillStyle0", "fillStyle1">>, EmptyDict),
     strokes |-> edge_paths(edges.children, 1, <<"strokeStyle">>, EmptyDict)]

\* The child of `element` with the given tag.
Child(element, tag) ==
    element.children[CHOOSE n \in 1..Len(element.children) : element.children[n].tag = tag]

\* The style element with the given index among the children of `styles`.
StyleOf(styles, index) ==
    styles.children[CHOOSE n \in 1..Len(styles.children) :
                        styles.children[n].attrib["index"] = index]

\* update(d, keys, values) for one key: None values are left out.
UpdateAttrib(attrib, key, element, xfl_key) ==
    IF Has(element.attrib, xfl_key) THEN (key :> element.attrib[xfl_key]) @@ attrib
    ELSE attrib

\* parse_fill_style, for solid fills and for fills of an unknown kind.
parse_fill_style(style) ==
    IF style.tag = "SolidColor"
    THEN UpdateAttrib(("fill" :> Get(style.attrib, "color", "#000000"))
                      @@ ("stroke" :> "none"), "fill-opacity", style, "alpha")
    ELSE ("stroke" :> "none")

\* parse_stroke_style, for solid strokes of a solid color and for strokes of
\* an unknown kind.
parse_stroke_style(style) ==
    IF style.tag # "SolidStroke" THEN ("fill" :> "none")
    ELSE
      LET cap == Get(style.attrib, "caps", "round")
          joints == Get(style.attrib, "joints", "round")
          solid == Get(style.attrib, "solidStyle", "")
          base == ("stroke-linecap" :> (IF cap = "none" THEN "butt" ELSE cap))
                  @@ ("stroke-width" :> (IF solid = "hairline" THEN "0.05"
                                         ELSE Get(style.attrib, "weight", "1")))
                  @@ ("stroke-linejoin" :> joints)
                  @@ ("fill" :> "none")
          miter == IF joints = "miter"
                   THEN ("stroke-miterlimit" :> Get(style.attrib, "miterLimit", "5")) @@ base
                   ELSE base
          fill == style.children[1].children[1]
      IN  IF fill.tag = "SolidColor"
          THEN UpdateAttrib(("stroke" :> Get(fill.attrib, "color", "#000000")) @@ miter,
                            "stroke-opacity", fill, "alpha")
          ELSE miter

\* The warnings of parse_fill_style.
fill_style_warnings(style) ==
    IF style.tag \in {"SolidColor", "LinearGradient", "RadialGradient"} THEN {}
    ELSE {"Unknown fill style"}

\* The warnings of parse_stroke_style.
stroke_style_warnings(style) ==
    IF style.tag # "SolidStroke" THEN {"Unknown stroke style"}
    ELSE (IF Get(style.attrib, "scaleMode", "") # "normal"
          THEN {"Unknown scaleMode value"} ELSE {})
         \cup (IF Get(style.attrib, "solidStyle", "") \notin {"", "hairline"}
               THEN {"Unknown solidStyle value"} ELSE {})
         \cup (IF style.children[1].children[1].tag \notin {"RadialGradient", "SolidColor"}
               THEN {"Unknown stroke fill"} ELSE {})

\* The style attributes of a filled path (in a mask or not) and of a
\* stroked path.
StyleAttrib(kind, style) ==
    IF kind = "mask" THEN ("fill" :> "#FFFFFF") @@ ("stroke" :> "none")
    ELSE IF kind = "fill" THEN parse_fill_style(style.children[1])
    ELSE parse_stroke_style(style.children[1])

\* The <path> elements of the paths of `data`.
RECURSIVE PathElements(_, _, _, _)
PathElements(data, n, styles, kind) ==
    IF n > Len(data.keys) THEN <<>>
    ELSE <<El("path",
              ("d" :> data.vals[n]) @@ StyleAttrib(kind, StyleOf(styles, data.keys[n])),
              <<>>)>>
         \o PathElements(data, n + 1, styles, kind)

\* The <g> of a list of <path>s, None when there is no path.
GroupOf(path_elements) ==
    IF path_elements = <<>> THEN PyNone ELSE Some(El("g", <<>>, path_elements))

\* fill_g, stroke_g and extra_defs for the shapes and strokes of the edges.
SvgOfPaths(paths, domshape, mask) ==
    [fill_g |-> GroupOf(PathElements(paths.shapes, 1, Child(domshape, "fills"),
                                     IF mask THEN "mask" ELSE "fill")),
     stroke_g |-> GroupOf(PathElements(paths.strokes, 1, Child(domshape, "strokes"),
                                       "stroke")),
     extra_defs |-> EmptyDict]

\* xfl_domshape_to_svg(domshape, mask): fill_g, stroke_g and extra_defs as
\* the renderer unpacks them.
xfl_domshape_to_svg(domshape, mask) ==
    SvgOfPaths(xfl_edge_to_shapes(Child(domshape, "edges")), domshape, mask)

(***************************************************************************)
(* color_effect.py: ColorEffect.to_svg                                     *)
(***************************************************************************)
\* A number as the format string writes it: the fraction it is.
NumberStr(x) == IF x[2] = 1 THEN ToString(x[1]) ELSE ToString(x[1]) \o "/" \o ToString(x[2])

FilterRow(e, c) ==
    LET zeros == [k \in 1..4 |-> IF k = c THEN NumberStr(e.m[c]) ELSE "0"]
    IN  zeros[1] \o " " \o zeros[2] \o " " \o zeros[3] \o " " \o zeros[4] \o " "
        \o NumberStr(e.o[c])

to_svg(e) ==
    El("filter",
       ("id" :> FilterId(e)) @@ ("x" :> "-20%") @@ ("y" :> "-20%")
       @@ ("width" :> "140%") @@ ("height" :> "140%")
       @@ ("color-interpolation-filters" :> "sRGB"),
       <<El("feColorMatrix",
            ("in" :> "SourceGraphic") @@ ("type" :> "matrix")
            @@ ("values" :> FilterRow(e, 1) \o " " \o FilterRow(e, 2) \o " "
                            \o FilterRow(e, 3) \o " " \o FilterRow(e, 4))
            @@ ("result" :> "result1"),
            <<>>)>>)

(***************************************************************************)
(* svg_renderer.py: _handle_domshape and the lru_cache around it.          *)
(***************************************************************************)
HREF == "{http://www.w3.org/1999/xlink}href"

WithAttrib(element, key, value) ==
    [element EXCEPT !.attrib = (key :> value) @@ element.attrib]

\* defs[fill_id] = fill_g
AddFill(defs, svg, fill_id) ==
    IF svg.fill_g.some
    THEN DictSet(defs, fill_id, WithAttrib(svg.fill_g.v, "id", fill_id))
    ELSE defs

\* defs[color_effect.id] = color_effect.to_svg()
AddFilter(defs, svg, color_effect, inside_mask) ==
    IF svg.fill_g.some /\ ~inside_mask /\ ~is_identity(color_effect)
    THEN DictSet(defs, FilterId(color_effect), to_svg(color_effect))
    ELSE defs

\* defs[stroke_id] = stroke_g
AddStroke(defs, svg, stroke_id) ==
    IF svg.stroke_g.some
    THEN DictSet(defs, stroke_id, WithAttrib(svg.stroke_g.v, "id", stroke_id))
    ELSE defs

\* The <use> of the fill, with the filter of a color effect that is not
\* the identity.
FillUse(fill_id, color_effect, inside_mask) ==
    IF ~inside_mask /\ ~is_identity(color_effect)
    THEN El("use", (HREF :> "#" \o fill_id)
                   @@ ("filter" :> "url(#" \o FilterId(color_effect) \o ")"), <<>>)
    ELSE El("use", (HREF :> "#" \o fill_id), <<>>)

\* _handle_domshape after the call of xfl_domshape_to_svg, which returned svg.
HandleSvg(svg, id, color_effect, inside_mask) ==
    [defs |-> AddStroke(AddFilter(AddFill(svg.extra_defs, svg, id \o "_FILL"),
                                  svg, color_effect, inside_mask),
                        svg, id \o "_STROKE"),
     body |-> (IF svg.fill_g.some
               THEN <<FillUse(id \o "_FILL", color_effect, inside_mask)>> ELSE <<>>)
              \o (IF svg.stroke_g.some
                  THEN <<El("use", (HREF :> "#" \o id \o "_STROKE"), <<>>)>> ELSE <<>>)]

\* _handle_domshape
handle_domshape(domshape, id, color_effect, inside_mask) ==
    HandleSvg(xfl_domshape_to_svg(domshape, inside_mask), id, color_effect, inside_mask)

\* The key lru_cache makes of the arguments; a <DOMShape> element is hashed
\* and compared by identity, which is its oid here.
CacheKey(domshape, id, color_effect, inside_mask) ==
    <<domshape.oid, id, color_effect, inside_mask>>

CacheHas(cache, key) == \E n \in 1..Len(cache) : cache[n].key = key

CacheIndex(cache, key) == CHOOSE n \in 1..Len(cache) : cache[n].key = key

\* The call returns the value of `entry`, which becomes the most recently
\* used entry after those of `kept`; the call is added to th.seen.
CacheReturn(th, kept, entry) ==
    [th |-> [th EXCEPT !.cache = Append(kept, entry), !.seen = th.seen \cup {entry},
                       !.trace = th.trace \cup {[kind |-> "fill", chain |-> th.chain,
                                                  key |-> entry.key]}],
     raised |-> "", defs |-> entry.value.defs, body |-> entry.value.body]

\* A miss that stores the value and evicts nothing.
CacheMiss_never_evicts(th, key, value) ==
    CacheReturn(th, th.cache, [key |-> key, value |-> value])

\* A miss: the value is computed and stored, and the least recently used
\* entry of a full cache is evicted.
CacheMiss(th, key, value) ==
    CacheReturn(th, IF Len(th.cache) >= th.maxsize THEN Tail(th.cache) ELSE th.cache,
                [key |-> key, value |-> value])

\* A hit on the n-th entry.
CacheHit(th, n) == CacheReturn(th, DelAt(th.cache, n - 1), th.cache[n])

CacheLookup(th, key, domshape, id, color_effect, inside_mask) ==
    IF CacheHas(th.cache, key) THEN CacheHit(th, CacheIndex(th.cache, key))
    ELSE CacheMiss(th, key, handle_domshape(domshape, id, color_effect, inside_mask))

\* self._handle_domshape(...), the lru_cache around _handle_domshape.
cached_handle_domshape(th, domshape, id, color_effect, inside_mask) ==
    CacheLookup(th, CacheKey(domshape, id, color_effect, inside_mask),
                domshape, id, color_effect, inside_mask)

(***************************************************************************)
(* svg_renderer.py: SvgRenderer.  The renderer and its reader are the      *)
(* record th: the reader's scenes, symbols, symbol_paths and symbol_files, *)
(* the counter mask_num, the LRU cache (least recently used entry first)   *)
(* with its maxsize, and `seen`, the calls of self._handle_domshape so far *)
(* with the value each returned.  Every method returns the record it       *)
(* leaves, the exception raised ("" when none), and defs and body.         *)
(* Two fields record what the methods did: `chain` holds, for the          *)
(* instances being rendered, outermost first, the color effect each has of *)
(* its own; `trace` holds the layers placed, the frames looked up, the     *)
(* elements rendered and the shapes handled.                               *)
(***************************************************************************)
Trace(th, rec) == [th EXCEPT !.trace = th.trace \cup {rec}]

\* An instance is entered with the color effect `own` of its <color>, and
\* left when its timeline is rendered.
Push(th, own) == [th EXCEPT !.chain = Append(th.chain, own)]
Pop(r) == [r EXCEPT !.th.chain = SubSeq(r.th.chain, 1, Len(r.th.chain) - 1)]

LayerAttribs(layers) == [k \in 1..Len(layers) |-> layers[k].attrib]
FrameSpans(frames) == [k \in 1..Len(frames) |-> <<frames[k].index, frames[k].duration>>]

Rendered(th, defs, body) == [th |-> th, raised |-> "", defs |-> defs, body |-> body]

Raised(th, raised) == [th |-> th, raised |-> raised, defs |-> EmptyDict, body |-> <<>>]

\* re.sub(r"[^A-Za-z0-9]", "_", name)
id_name(name) ==
    JoinChars([n \in 1..Len(name) |-> IF name[n] \in AlNumChars THEN name[n] ELSE "_"])

\* The frame of a layer that covers frame_idx: its position, 0 when there is none.
RECURSIVE FindFrame(_, _, _)

\* A search that takes a frame to cover the frame after its last one too.
FindFrame_inclusive_end(frames, n, frame_idx) ==
    IF n > Len(frames) THEN 0
    ELSE IF frames[n].index <= frame_idx /\ frame_idx <= frames[n].index + frames[n].duration
    THEN n
    ELSE FindFrame(frames, n + 1, frame_idx)

FindFrame(frames, n, frame_idx) ==
    IF n > Len(frames) THEN 0
    ELSE IF frames[n].index <= frame_idx /\ frame_idx < frames[n].index + frames[n].duration
    THEN n
    ELSE FindFrame(frames, n + 1, frame_idx)

\* The <g transform="matrix(...)"> around body.
TransformGroup(matrix, body) ==
    El("g",
       ("transform" :> "matrix(" \o matrix[1] \o ", " \o matrix[2] \o ", " \o matrix[3] \o ", "
                       \o matrix[4] \o ", " \o matrix[5] \o ", " \o matrix[6] \o ")"),
       body)

\* The record of an element whose content rendered as `inner` and that
\* returned `outer`.
ElementTrace(th, element, inner, outer) ==
    Trace(th, [kind |-> "element", tag |-> element.tag, matrix |-> get_matrix(element),
               wrapped |-> outer = <<TransformGroup(get_matrix(element), inner)>>])

\* The reader of the renderer th.
ReaderOf(th) ==
    [scenes |-> th.scenes, symbols |-> th.symbols, symbol_paths |-> th.symbol_paths,
     symbol_files |-> th.symbol_files]

\* self.xfl_reader.get_timeline(name, type): what it returns or raises, and
\* the renderer with the reader as the call leaves it.
GotTimeline(th, got) ==
    [th |-> [th EXCEPT !.scenes = got.rd.scenes, !.symbols = got.rd.symbols],
     raised |-> got.raised, timeline |-> got.timeline]

reader_get_timeline(th, name, type) == GotTimeline(th, get_timeline(ReaderOf(th), name, type))

\* The end of _render_element for an element that is not a <DOMGroup>: the
\* body r.body goes into the <g> of the element's matrix.
TransformBody(r, element) ==
    IF r.raised # "" THEN r
    ELSE Rendered(ElementTrace(r.th, element, r.body,
                               <<TransformGroup(get_matrix(element), r.body)>>),
                  r.defs, <<TransformGroup(get_matrix(element), r.body)>>)

\* The end of _render_element for a <DOMGroup>: the body of its members is
\* returned as it is.
GroupBody(r, element) ==
    IF r.raised # "" THEN r
    ELSE Rendered(ElementTrace(r.th, element, r.body, r.body), r.defs, r.body)

RECURSIVE render_timeline(_, _, _, _, _, _)
RECURSIVE render_timeline_layers(_, _, _, _, _)
RECURSIVE render_layers(_, _, _, _, _, _, _, _, _, _)
RECURSIVE render_after_mask(_, _, _, _, _, _, _, _, _, _)
RECURSIVE render_masked_layer(_, _, _, _, _, _, _, _, _, _)
RECURSIVE render_after_layer(_, _, _, _, _, _, _, _, _, _)
RECURSIVE render_layer(_, _, _, _, _, _)
RECURSIVE render_frame(_, _, _, _, _, _, _)
RECURSIVE render_elements(_, _, _, _, _, _, _, _, _)
RECURSIVE render_after_element(_, _, _, _, _, _, _, _, _)
RECURSIVE render_element(_, _, _, _, _, _)
RECURSIVE render_instance(_, _, _, _, _)
RECURSIVE render_instance_effect(_, _, _, _, _, _)
RECURSIVE render_instance_named(_, _, _, _, _, _)
RECURSIVE render_instance_timeline(_, _, _, _, _, _)
RECURSIVE render_instance_frame(_, _, _, _, _)
RECURSIVE render_members(_, _, _, _, _, _, _, _, _)
RECURSIVE render_after_member(_, _, _, _, _, _, _, _, _)

\* _render_element
render_element(th, element, id, frame_offset, color_effect, inside_mask) ==
    IF element.tag = "DOMSymbolInstance"
    THEN TransformBody(render_instance(th, element, frame_offset, color_effect, inside_mask),
                       element)
    ELSE IF element.tag = "DOMShape"
    THEN TransformBody(cached_handle_domshape(th, element, id, color_effect, inside_mask),
                       element)
    ELSE IF element.tag = "DOMGroup"
    THEN GroupBody(render_members(th, Last(element.children).children, 1, id,
                                  frame_offset, color_effect, inside_mask, EmptyDict, <<>>),
                   element)
    ELSE Rendered(th, EmptyDict, <<>>)

\* The <DOMSymbolInstance> branch of _render_element: element[-1] is looked
\* at outside a mask only, and raises IndexError when there is no child.
render_instance(th, element, frame_offset, color_effect, inside_mask) ==
    IF ~inside_mask /\ element.children = <<>> THEN Raised(th, "IndexError")
    ELSE IF ~inside_mask /\ Last(element.children).tag = "color"
    THEN render_instance_effect(th, element, frame_offset, color_effect, inside_mask,
                                from_xfl(Last(element.children).children[1].attrib))
    ELSE render_instance_named(Push(th, PyNone), element, frame_offset, color_effect,
                               inside_mask,
                               unescape_entities(element.attrib["libraryItemName"]))

\* The instance's own effect taken as the outer operand.
render_instance_effect_own_outer(th, element, frame_offset, color_effect, inside_mask, parsed) ==
    IF parsed.raised # "" THEN Raised(th, parsed.raised)
    ELSE render_instance_named(Push(th, Some(parsed.effect)), element, frame_offset,
                               matmul(parsed.effect, color_effect), inside_mask,
                               unescape_entities(element.attrib["libraryItemName"]))

\* color_effect = color_effect @ ColorEffect.from_xfl(element[-1][0])
render_instance_effect(th, element, frame_offset, color_effect, inside_mask, parsed) ==
    IF parsed.raised # "" THEN Raised(th, parsed.raised)
    ELSE render_instance_named(Push(th, Some(parsed.effect)), element, frame_offset,
                               matmul(color_effect, parsed.effect), inside_mask,
                               unescape_entities(element.attrib["libraryItemName"]))

\* The timeline of the instance, which _get_loop_frame asks the reader for.
render_instance_named(th, element, frame_offset, color_effect, inside_mask, name) ==
    render_instance_timeline(reader_get_timeline(th, name, "symbol"), element,
                             frame_offset, color_effect, inside_mask, name)

\* self._get_loop_frame(element, frame_offset)
render_instance_timeline(got, element, frame_offset, color_effect, inside_mask, name) ==
    IF got.raised # "" THEN Raised(got.th, got.raised)
    ELSE render_instance_frame(got.th, color_effect, inside_mask, name,
                               get_loop_frame(element, frame_offset, got.timeline.layers))

\* self._render_timeline(name, loop frame, color_effect, inside_mask)
render_instance_frame(th, color_effect, inside_mask, name, loop) ==
    IF loop.status = "raised" THEN Raised(th, loop.error)
    ELSE Pop(render_timeline(th, name, loop.frame, color_effect, inside_mask, "symbol"))

\* The loop of _render_element over the members of a <DOMGroup>, from
\* children[n] on.
render_members(th, children, n, id, frame_offset, color_effect, inside_mask, defs, body) ==
    IF n > Len(children) THEN Rendered(th, defs, body)
    ELSE render_after_member(
             render_element(th, children[n],
                 IF Len(children) > 1 THEN id \o "_MEMBER_" \o ToString(n - 1) ELSE id,
                 frame_offset, color_effect, inside_mask),
             children, n, id, frame_offset, color_effect, inside_mask, defs, body)

\* defs.update(d) and body.extend(b) for the member that rendered as r.
render_after_member(r, children, n, id, frame_offset, color_effect, inside_mask, defs, body) ==
    IF r.raised # "" THEN Raised(r.th, r.raised)
    ELSE render_members(r.th, children, n + 1, id, frame_offset, color_effect,
                        inside_mask, DictUpdate(defs, r.defs), body \o r.body)

\* The loop of _render_layer over the elements of the frame, from
\* elements[n] on.
render_elements(th, elements, n, id, frame_offset, color_effect, inside_mask, defs, body) ==
    IF n > Len(elements) THEN Rendered(th, defs, body)
    ELSE render_after_element(
             render_element(th, elements[n], id \o "_" \o ToString(n - 1),
                            frame_offset, color_effect, inside_mask),
             elements, n, id, frame_offset, color_effect, inside_mask, defs, body)

\* defs.update(d) and body.extend(b) for the element that rendered as r.
render_after_element(r, elements, n, id, frame_offset, color_effect, inside_mask, defs, body) ==
    IF r.raised # "" THEN Raised(r.th, r.raised)
    ELSE render_elements(r.th, elements, n + 1, id, frame_offset, color_effect,
                         inside_mask, DictUpdate(defs, r.defs), body \o r.body)

\* _render_layer
render_layer(th, layer, frame_idx, id, color_effect, inside_mask) ==
    render_frame(th, layer, FindFrame(layer.frames, 1, frame_idx), frame_idx, id,
                 color_effect, inside_mask)

\* The elements of a keyframe rendered on the keyframe's first frame only.
render_frame_keyframe_only(th, layer, n, frame_idx, id, color_effect, inside_mask) ==
    IF n = 0 \/ frame_idx # layer.frames[n].index
    THEN Rendered(Trace(th, [kind |-> "frame", frames |-> FrameSpans(layer.frames),
                             frame_idx |-> frame_idx, used |-> 0]),
                  EmptyDict, <<>>)
    ELSE render_elements(Trace(th, [kind |-> "frame", frames |-> FrameSpans(layer.frames),
                                    frame_idx |-> frame_idx, used |-> n]),
                         layer.frames[n].elements, 1, id,
                         frame_idx - layer.frames[n].index, color_effect, inside_mask,
                         EmptyDict, <<>>)

\* _render_layer once the frame is found: layer.frames[n], none when n = 0.
render_frame(th, layer, n, frame_idx, id, color_effect, inside_mask) ==
    IF n = 0
    THEN Rendered(Trace(th, [kind |-> "frame", frames |-> FrameSpans(layer.frames),
                             frame_idx |-> frame_idx, used |-> 0]),
                  EmptyDict, <<>>)
    ELSE render_elements(Trace(th, [kind |-> "frame", frames |-> FrameSpans(layer.frames),
                                    frame_idx |-> frame_idx, used |-> n]),
                         layer.frames[n].elements, 1, id,
                         frame_idx - layer.frames[n].index, color_effect, inside_mask,
                         EmptyDict, <<>>)

\* The loop of _render_timeline over the layers, from layers[n] down to the
\* first (n counts from 1; the code's layer_idx is n - 1).
render_layers(th, layers, n, frame_idx, id, color_effect, inside_mask, defs, body, mask_is_active) ==
    IF n = 0 THEN Rendered(th, defs, body)
    ELSE IF Get(layers[n].attrib, "layerType", "") = "guide"
    THEN render_layers(th, layers, n - 1, frame_idx, id, color_effect, inside_mask,
                       defs, body, mask_is_active)
    ELSE IF Get(layers[n].attrib, "layerType", "") = "mask"
    THEN render_layers(th, layers, n - 1, frame_idx, id, color_effect, inside_mask,
                       defs, body, FALSE)
    ELSE IF ~mask_is_active /\ Has(layers[n].attrib, MASK_START)
    THEN render_after_mask(
             render_layer([th EXCEPT !.mask_num = th.mask_num + 1],
                          layers[layers[n].attrib[MASK_START] + 1], frame_idx,
                          "Mask_" \o id \o "_" \o ToString(n - 1) \o "_MASK",
                          color_effect, TRUE),
             "Mask_" \o ToString(th.mask_num),
             layers, n, frame_idx, id, color_effect, inside_mask, defs, body)
    ELSE render_masked_layer(th, layers, n, frame_idx, id, color_effect, inside_mask,
                             defs, body, mask_is_active)

\* The mask layer rendered as m: the <mask> with the id mask_id and the <g>
\* that applies it are appended to the body.
render_after_mask(m, mask_id, layers, n, frame_idx, id, color_effect, inside_mask, defs, body) ==
    IF m.raised # "" THEN Raised(m.th, m.raised)
    ELSE render_masked_layer(m.th, layers, n, frame_idx, id, color_effect, inside_mask,
             DictUpdate(defs, m.defs),
             body \o <<El("mask", ("id" :> mask_id), m.body),
                       El("g", ("mask" :> "url(#" \o mask_id \o ")"), <<>>)>>,
             TRUE)

\* self._render_layer(layer, frame_idx, f"{id}_Layer{layer_idx}", ...)
render_masked_layer(th, layers, n, frame_idx, id, color_effect, inside_mask, defs, body, mask_is_active) ==
    render_after_layer(
        render_layer(th, layers[n], frame_idx, id \o "_Layer" \o ToString(n - 1),
                     color_effect, inside_mask),
        layers, n, frame_idx, id, color_effect, inside_mask, defs, body, mask_is_active)

\* The layer rendered as l: its elements go into body[-1] under a mask, and
\* onto the body otherwise.
render_after_layer(l, layers, n, frame_idx, id, color_effect, inside_mask, defs, body, mask_is_active) ==
    IF l.raised # "" THEN Raised(l.th, l.raised)
    ELSE render_layers(Trace(l.th, [kind |-> "layer", layers |-> LayerAttribs(layers),
                                    n |-> n, nested |-> mask_is_active]),
             layers, n - 1, frame_idx, id, color_effect, inside_mask,
             DictUpdate(defs, l.defs),
             IF mask_is_active
             THEN [body EXCEPT ![Len(body)].children = @ \o l.body]
             ELSE body \o l.body,
             mask_is_active)

\* _render_timeline
render_timeline(th, name, frame_idx, color_effect, inside_mask, type) ==
    render_timeline_layers(reader_get_timeline(th, name, type), frame_idx,
        (IF inside_mask THEN "Mask_" ELSE "") \o id_name(name) \o "_" \o ToString(frame_idx),
        color_effect, inside_mask)

\* The loop of _render_timeline over the layers that get_timeline returned.
render_timeline_layers(got, frame_idx, id, color_effect, inside_mask) ==
    IF got.raised # "" THEN Raised(got.th, got.raised)
    ELSE render_layers(got.th, got.timeline.layers, Len(got.timeline.layers), frame_idx,
                       id, color_effect, inside_mask, EmptyDict, <<>>, FALSE)

\* The <svg> document of the defs and body that _render_timeline returned.
Document(r, width, height) ==
    [th |-> r.th, raised |-> r.raised,
     document |->
        IF r.raised # "" THEN El("", <<>>, <<>>)
        ELSE El("svg",
                ("xmlns" :> "http://www.w3.org/2000/svg") @@ ("version" :> "1.1")
                @@ ("preserveAspectRatio" :> "none") @@ ("x" :> "0px") @@ ("y" :> "0px")
                @@ ("width" :> ToString(width) \o "px")
                @@ ("height" :> ToString(height) \o "px")
                @@ ("viewBox" :> "0 0 " \o ToString(width) \o " " \o ToString(height)),
                <<El("defs", <<>>, r.defs.vals)>> \o r.body)]

\* SvgRenderer.render: the document, or the exception.
render(th, timeline_name, frame_idx, width, height, type) ==
    Document(render_timeline(th, timeline_name, frame_idx, CeNone, FALSE, type),
             width, height)

(***************************************************************************)
(* The renderer component: one project, rendered up to MaxRenders times    *)
(* by renderers that share its reader.                                     *)
(***************************************************************************)
DOMSHAPE_CACHE_SIZE == 2048

\* Bounds: the number of renders, and the last frame asked for.
MaxRenders == 3
MaxRenderFrame == 1

Layer(attrib, frames) == [attrib |-> attrib, frames |-> frames]

Frame(index, duration, elements) ==
    [index |-> index, duration |-> duration, elements |-> elements]

MatrixEl(tx, ty) ==
    El("matrix", <<>>, <<El("Matrix", ("tx" :> tx) @@ ("ty" :> ty), <<>>)>>)

ColorEl(attrib) == El("color", <<>>, <<El("Color", attrib, <<>>)>>)

Instance(name, attrib, children) ==
    El("DOMSymbolInstance",
       ("libraryItemName" :> name) @@ ("symbolType" :> "graphic") @@ attrib, children)

\* A <DOMShape> of one edge filled with a solid color, stroked when
\* stroke_color is not "".
Shape(oid, color, stroke_color, edges) ==
    [tag |-> "DOMShape", attrib |-> <<>>, oid |-> oid,
     children |->
        <<El("fills", <<>>,
             <<El("FillStyle", ("index" :> "1"),
                  <<El("SolidColor", ("color" :> color), <<>>)>>)>>),
          El("strokes", <<>>,
             IF stroke_color = "" THEN <<>>
             ELSE <<El("StrokeStyle", ("index" :> "1"),
                       <<El("SolidStroke", ("weight" :> "2") @@ ("scaleMode" :> "normal"),
                            <<El("fill", <<>>,
                                 <<El("SolidColor", ("color" :> stroke_color), <<>>)>>)>>)>>)>>),
          El("edges", <<>>,
             <<El("Edge",
                  IF stroke_color = "" THEN ("fillStyle1" :> "1") @@ ("edges" :> edges)
                  ELSE ("fillStyle1" :> "1") @@ ("strokeStyle" :> "1") @@ ("edges" :> edges),
                  <<>>)>>)>>]

Group(members) == El("DOMGroup", <<>>, <<El("members", <<>>, members)>>)

SquareEdges == "!0 0|200 0|200 200|0 200|0 0"
TriangleEdges == "!0 0|200 0|0 200|0 0"

Scene1 == <<"S", "c", "e", "n", "e", " ", "1">>
Sq1 == <<"S", "q", "1">>
Sq1Escaped == <<"S", "q", "&", "#", "4", "9">>
Tint == <<"T", "i", "n", "t">>
M1 == <<"M", " ", "1">>
M2 == <<"M", " ", "2">>
M3 == <<"M", " ", "3">>
Gaps == <<"G", "a", "p", "s">>
Chain == <<"C", "h", "a", "i", "n">>
Deep == <<"D", "e", "e", "p">>
Lost == <<"L", "o", "s", "t">>
Still == <<"S", "t", "i", "l", "l">>
M3Underscore == <<"M", "_", "3">>

Darker == Attrib1("redOffset", R(-255))
HalfRed == Attrib1("redMultiplier", Half)
HalfRedLighter == Attrib2("redMultiplier", Half, "redOffset", R(255))

\* The symbol files of the project: a square; the square under a color
\* effect; a mask layer with one masked layer; a mask layer whose last
\* child is a guide layer; a mask layer with a stroked shape and an instance
\* under a color effect; an empty layer and a layer whose only keyframe is
\* frame 1, with a group that has a matrix; instances nested three deep,
\* the middle ones with and without a color effect.
SymbolFiles ==
    (Sq1 :> <<Layer(<<>>, <<Frame(0, 2, <<Shape("square", "#FF0000", "#000000",
                                               SquareEdges)>>)>>)>>)
    @@ (Tint :> <<Layer(<<>>,
                    <<Frame(0, 1, <<Instance(Sq1Escaped, <<>>,
                                       <<MatrixEl("5", "0"), ColorEl(Darker)>>)>>)>>)>>)
    @@ (M1 :> <<Layer(Attrib1("layerType", "mask"),
                      <<Frame(0, 2, <<Shape("stencil", "#00FF00", "", TriangleEdges)>>)>>),
                Layer(Attrib1("parentLayerIndex", 0),
                      <<Frame(0, 2, <<Instance(Sq1, Attrib1("loop", "loop"),
                                         <<MatrixEl("0", "5")>>)>>)>>)>>)
    @@ (M2 :> <<Layer(Attrib1("layerType", "mask"),
                      <<Frame(0, 2, <<Shape("stencil2", "#00FF00", "", TriangleEdges)>>)>>),
                Layer(Attrib1("parentLayerIndex", 0),
                      <<Frame(0, 2, <<Shape("masked", "#FF0000", "", SquareEdges)>>)>>),
                Layer(Attrib2("parentLayerIndex", 0, "layerType", "guide"),
                      <<Frame(0, 2, <<Shape("guide2", "#000000", "", SquareEdges)>>)>>),
                Layer(<<>>,
                      <<Frame(0, 2, <<Shape("behind", "#0000FF", "", SquareEdges)>>)>>)>>)
    @@ (M3 :> <<Layer(<<>>,
                      <<Frame(0, 2, <<Shape("front", "#0000FF", "", SquareEdges)>>)>>),
                Layer(Attrib1("layerType", "mask"),
                      <<Frame(0, 2, <<Shape("ring", "#00FF00", "#000000", TriangleEdges),
                                      Instance(Tint, <<>>,
                                         <<MatrixEl("4", "4"), ColorEl(Darker)>>)>>)>>),
                Layer(Attrib1("parentLayerIndex", 1),
                      <<Frame(0, 2, <<Shape("under", "#FF0000", "", SquareEdges)>>)>>),
                Layer(Attrib1("parentLayerIndex", 1),
                      <<Frame(0, 2, <<Shape("under2", "#FF0000", "", TriangleEdges)>>)>>)>>)
    @@ (Gaps :> <<Layer(<<>>, <<>>),
                  Layer(<<>>,
                        <<Frame(1, 1,
                            <<El("DOMGroup", <<>>,
                                 <<MatrixEl("3", "3"),
                                   El("members", <<>>,
                                      <<Shape("member", "#0000FF", "", SquareEdges)>>)>>)>>)>>)>>)
    @@ (Chain :> <<Layer(<<>>,
                     <<Frame(0, 2, <<Instance(Tint, <<>>,
                                        <<MatrixEl("6", "0"), ColorEl(HalfRed)>>),
                                     Instance(Tint, <<>>, <<MatrixEl("7", "0")>>)>>)>>)>>)
    @@ (Deep :> <<Layer(<<>>,
                    <<Frame(0, 2, <<Instance(Chain, <<>>,
                                       <<MatrixEl("8", "0"),
                                         ColorEl(HalfRedLighter)>>)>>)>>)>>)

\* The scene: a layer with an instance of the masked symbol; a guide layer;
\* a layer with the square and the tinted square under the same color
\* effect, then a group of two shapes.
SceneLayers ==
    <<Layer(<<>>,
            <<Frame(0, 1, <<Instance(Sq1, <<>>, <<MatrixEl("0", "0"), ColorEl(Darker)>>),
                            Instance(Tint, <<>>, <<MatrixEl("9", "9"), ColorEl(Darker)>>)>>),
              Frame(1, 1, <<Group(<<Shape("a", "#0000FF", "", SquareEdges),
                                    Shape("b", "#0000FF", "", TriangleEdges)>>)>>)>>),
      Layer(Attrib1("layerType", "guide"),
            <<Frame(0, 2, <<Shape("guide", "#000000", "", SquareEdges)>>)>>),
      Layer(<<>>,
            <<Frame(0, 2, <<Instance(M1, <<>>,
                               <<MatrixEl("1", "1"),
                                 ColorEl(Attrib1("alphaMultiplier", R(1)))>>)>>)>>)>>

\* A scene of one layer with one keyframe of two frames that holds one shape.
StillLayers ==
    <<Layer(<<>>, <<Frame(0, 2, <<Shape("still", "#FF0000", "#000000", SquareEdges)>>)>>)>>

\* A scene named "M_3": a shape of its own and an instance of the symbol
\* "M 3", whose first layer holds another shape.
M3UnderscoreLayers ==
    <<Layer(<<>>,
            <<Frame(0, 2, <<Shape("own", "#00FF00", "", TriangleEdges),
                            Instance(M3, <<>>, <<MatrixEl("2", "2")>>)>>)>>)>>

\* What render() is asked for: a timeline and its kind, a frame, a size.
RenderTargets ==
    {<<Scene1, "scene">>, <<Still, "scene">>, <<M3Underscore, "scene">>, <<Sq1, "symbol">>, <<Tint, "symbol">>, <<M1, "symbol">>,
     <<M2, "symbol">>, <<M3, "symbol">>, <<Gaps, "symbol">>, <<Deep, "symbol">>,
     <<Lost, "symbol">>}

RenderSizes == {<<550, 400>>}

CacheSizes == {1, DOMSHAPE_CACHE_SIZE}

RnIdle ==
    /\ rn_scenes = <<>>
    /\ rn_symbols = <<>>
    /\ rn_mask_num = 1
    /\ rn_cache = <<>>
    /\ rn_maxsize = DOMSHAPE_CACHE_SIZE
    /\ rn_seen = {}
    /\ rn_trace = {}
    /\ rn_renders = <<>>
    /\ rn_pc = "idle"

\* XflReader.__init__ and SvgRenderer.__init__
RnInit ==
    /\ rn_scenes = (Scene1 :> [is_timeline |-> FALSE, layers |-> SceneLayers,
                               last_frame |-> -1])
                   @@ (Still :> [is_timeline |-> FALSE, layers |-> StillLayers,
                                 last_frame |-> -1])
                   @@ (M3Underscore :> [is_timeline |-> FALSE,
                                        layers |-> M3UnderscoreLayers, last_frame |-> -1])
    /\ rn_symbols = <<>>
    /\ rn_mask_num = 1
    /\ rn_cache = <<>>
    /\ rn_maxsize \in CacheSizes
    /\ rn_seen = {}
    /\ rn_trace = {}
    /\ rn_renders = <<>>
    /\ rn_pc = "ready"

\* The renderer and its reader, as the methods see them.
RnThread ==
    [scenes |-> rn_scenes, symbols |-> rn_symbols,
     symbol_paths |-> DOMAIN SymbolFiles \cup {Lost}, symbol_files |-> SymbolFiles,
     mask_num |-> rn_mask_num, cache |-> rn_cache, maxsize |-> rn_maxsize,
     seen |-> rn_seen, trace |-> rn_trace, chain |-> <<>>]

\* The renderer and its reader after the call render(args), which returned
\* or raised as r tells.
RnRendered(r, args) ==
    /\ rn_scenes' = r.th.scenes
    /\ rn_symbols' = r.th.symbols
    /\ rn_mask_num' = r.th.mask_num
    /\ rn_cache' = r.th.cache
    /\ rn_seen' = r.th.seen
    /\ rn_trace' = r.th.trace
    /\ rn_renders' = Append(rn_renders,
           [args |-> args, raised |-> r.raised, document |-> r.document])

\* SvgRenderer.render(timeline_name, frame_idx, width, height, type)
RnRender ==
    /\ rn_pc = "ready"
    /\ Len(rn_renders) < MaxRenders
    /\ \E target \in RenderTargets, frame_idx \in 0..MaxRenderFrame, size \in RenderSizes :
        RnRendered(render(RnThread, target[1], frame_idx, size[1], size[2], target[2]),
                   <<target[1], frame_idx, size[1], size[2], target[2]>>)
    /\ UNCHANGED <<rn_maxsize, rn_pc, rnOthers>>

\* SvgRenderer(xfl_reader, DOMSHAPE_CACHE_SIZE): a fresh renderer on the
\* same reader.
RnNewRenderer ==
    /\ rn_pc = "ready"
    /\ rn_renders # <<>>
    /\ Len(rn_renders) < MaxRenders
    /\ rn_mask_num' = 1
    /\ rn_cache' = <<>>
    /\ rn_maxsize' \in CacheSizes
    /\ rn_seen' = {}
    /\ rn_trace' = {}
    /\ UNCHANGED <<rn_scenes, rn_symbols, rn_renders, rn_pc, rnOthers>>

(***************************************************************************)
(* The style component: one fill style or stroke style is parsed.          *)
(***************************************************************************)
OptionalAttribs(key, values) == {<<>>} \cup {(key :> v) : v \in values}

\* The children of <FillStyle>: solid colors and kinds that are not
\* supported.
FillStyles ==
    {El("SolidColor", color @@ alpha, <<>>) :
        color \in OptionalAttribs("color", {"#FF0000"}),
        alpha \in OptionalAttribs("alpha", {"0.5"})}
    \cup {El("BitmapFill", ("bitmapPath" :> "a.png"), <<>>),
          El("ClippedBitmapFill", ("bitmapPath" :> "a.png"), <<>>)}

\* The children of <StrokeStyle>: solid strokes of a solid color, of a
\* linear gradient and of a bitmap, and kinds that are not supported.
StrokeStyles ==
    {El("SolidStroke", ("scaleMode" :> "normal") @@ caps @@ joints @@ solid @@ weight,
        <<El("fill", <<>>, <<fill>>)>>) :
        caps \in OptionalAttribs("caps", {"none", "square"}),
        joints \in OptionalAttribs("joints", {"miter"}),
        solid \in OptionalAttribs("solidStyle", {"hairline"}),
        weight \in OptionalAttribs("weight", {"2"}),
        fill \in {El("SolidColor", ("color" :> "#000000"), <<>>),
                  El("LinearGradient", <<>>, <<>>),
                  El("BitmapFill", ("bitmapPath" :> "a.png"), <<>>)}}
    \cup {El(kind, ("weight" :> "2"), <<El("fill", <<>>, <<>>)>>) :
            kind \in {"DashedStroke", "DottedStroke", "RaggedStroke", "StippleStroke"}}

StIdle ==
    /\ st_style = <<>>
    /\ st_is_fill = FALSE
    /\ st_attrib = <<>>
    /\ st_warnings = {}
    /\ st_pc = "idle"

StInit ==
    /\ st_is_fill \in BOOLEAN
    /\ st_style \in (IF st_is_fill THEN FillStyles ELSE StrokeStyles)
    /\ st_attrib = <<>>
    /\ st_warnings = {}
    /\ st_pc = "parse"

\* fill_style, fill_extra = parse_fill_style(style[0], curr_bounding_box)
StParseFill ==
    /\ st_pc = "parse"
    /\ st_is_fill
    /\ st_attrib' = parse_fill_style(st_style)
    /\ st_warnings' = fill_style_warnings(st_style)
    /\ st_pc' = "parsed"
    /\ UNCHANGED <<st_style, st_is_fill, stOthers>>

\* stroke_style, stroke_extra = parse_stroke_style(style[0], curr_bounding_box)
StParseStroke ==
    /\ st_pc = "parse"
    /\ ~st_is_fill
    /\ st_attrib' = parse_stroke_style(st_style)
    /\ st_warnings' = stroke_style_warnings(st_style)
    /\ st_pc' = "parsed"
    /\ UNCHANGED <<st_style, st_is_fill, stOthers>>

(***************************************************************************)
(* The reader component: two threads call get_timeline for the scene and   *)
(* for the symbol of one project.  A scene's <layers> element is shared    *)
(* and marked in place; a symbol's file is parsed anew by each call that   *)
(* finds the symbol missing in self.symbols.  A step is one check, one     *)
(* turn of the loop of setup_timeline, or the end of the call.             *)
(***************************************************************************)
\* Bound: the calls of get_timeline each thread makes.
MaxCalls == 2

Threads == {1, 2}
Kinds == {"scene", "symbol"}

\* A mask layer already marked is unmarked: a pass that is not idempotent.
mark_step_toggle(layers, n, mask_idx) ==
    IF mask_idx = -1
    THEN [layers |-> layers,
          mask_idx |-> IF Get(layers[n].attrib, "layerType", "") = "mask" THEN n - 1 ELSE -1]
    ELSE IF n = Len(layers) \/ Get(layers[n + 1].attrib, "parentLayerIndex", -1) < mask_idx
    THEN [layers |-> [layers EXCEPT ![n].attrib =
                         IF Has(layers[n].attrib, MASK_START)
                         THEN [k \in DOMAIN layers[n].attrib \ {MASK_START} |->
                                  layers[n].attrib[k]]
                         ELSE (MASK_START :> mask_idx) @@ layers[n].attrib],
          mask_idx |-> -1]
    ELSE [layers |-> layers, mask_idx |-> mask_idx]

\* One turn of the loop of setup_timeline, for layers[n] (the code's index
\* is n - 1; mask_idx is -1 for None): the layers and mask_idx it leaves.
mark_step(layers, n, mask_idx) ==
    IF mask_idx = -1
    THEN [layers |-> layers,
          mask_idx |-> IF Get(layers[n].attrib, "layerType", "") = "mask" THEN n - 1 ELSE -1]
    ELSE IF n = Len(layers) \/ Get(layers[n + 1].attrib, "parentLayerIndex", -1) < mask_idx
    THEN [layers |-> [layers EXCEPT ![n].attrib = (MASK_START :> mask_idx) @@ layers[n].attrib],
          mask_idx |-> -1]
    ELSE [layers |-> layers, mask_idx |-> mask_idx]

OneFrame == <<Frame(0, 1, <<>>)>>
TwoFrames == <<Frame(0, 1, <<>>), Frame(1, 2, <<>>)>>
MaskLayer(frames) == Layer(Attrib1("layerType", "mask"), frames)
ChildLayer(parent, frames) == Layer(Attrib1("parentLayerIndex", parent), frames)
MaskChild(parent, frames) ==
    Layer(Attrib2("layerType", "mask", "parentLayerIndex", parent), frames)
FolderLayer == Layer(Attrib1("layerType", "folder"), <<>>)

\* The timelines of the projects: mask groups at the front, behind a plain
\* layer and inside a folder; two mask groups; a mask layer without
\* children, before a plain layer and before another mask layer; no mask
\* layer; and timelines whose layers hold no frame.
LayerLists ==
    {<<MaskLayer(OneFrame), ChildLayer(0, OneFrame), ChildLayer(0, TwoFrames),
       Layer(<<>>, OneFrame)>>,
     <<Layer(<<>>, TwoFrames), MaskLayer(OneFrame), ChildLayer(1, OneFrame)>>,
     <<FolderLayer, MaskChild(0, OneFrame), ChildLayer(1, OneFrame),
       ChildLayer(1, OneFrame), ChildLayer(0, TwoFrames)>>,
     <<MaskLayer(OneFrame), ChildLayer(0, OneFrame), MaskLayer(OneFrame),
       ChildLayer(2, TwoFrames)>>,
     <<MaskLayer(OneFrame), Layer(<<>>, OneFrame)>>,
     <<MaskLayer(OneFrame), MaskLayer(OneFrame), ChildLayer(1, OneFrame)>>,
     <<Layer(<<>>, OneFrame), Layer(<<>>, TwoFrames)>>,
     <<MaskLayer(<<>>), ChildLayer(0, <<>>)>>,
     <<Layer(<<>>, <<>>)>>}

RdAtRest == [pc |-> "idle", type |-> "", layers |-> <<>>, i |-> 0, mask_idx |-> -1,
             got |-> NoTimeline, calls |-> 0]

RdIdle ==
    /\ rd_source = <<>>
    /\ rd_scene = [is_timeline |-> FALSE, layers |-> <<>>, last_frame |-> -1]
    /\ rd_symbol = PyNone
    /\ rd_thread = [t \in Threads |-> RdAtRest]
    /\ rd_passes = [k \in Kinds |-> 0]

\* XflReader.__init__: self.scenes[name] holds the <layers> element,
\* self.symbols is empty.
RdInit ==
    /\ rd_source \in LayerLists
    /\ rd_scene = [is_timeline |-> FALSE, layers |-> rd_source, last_frame |-> -1]
    /\ rd_symbol = PyNone
    /\ rd_thread = [t \in Threads |-> RdAtRest]
    /\ rd_passes = [k \in Kinds |-> 0]

\* The layers setup_timeline works on in thread t: the scene's shared
\* element, or the element the thread parsed from the symbol's file.
RdLayers(t) ==
    IF rd_thread[t].type = "scene" THEN rd_scene.layers ELSE rd_thread[t].layers

\* A thread calls get_timeline(name, type).
RdCall(t) ==
    /\ rd_thread[t].pc \in {"idle", "returned", "raised"}
    /\ rd_thread[t].calls < MaxCalls
    /\ \E type \in Kinds :
        rd_thread' = [rd_thread EXCEPT ![t] =
            [RdAtRest EXCEPT !.pc = "check", !.type = type,
                             !.calls = rd_thread[t].calls + 1]]
    /\ UNCHANGED <<rd_source, rd_scene, rd_symbol, rd_passes, rdOthers>>

\* `not isinstance(self.scenes[name], Timeline)`, `name not in self.symbols`:
\* the timeline is returned, or setup_timeline is called on the scene's
\* layers or on the layers of symbol.find(".//{*}layers").
RdCheck(t) ==
    /\ rd_thread[t].pc = "check"
    /\ IF rd_thread[t].type = "scene" /\ rd_scene.is_timeline
       THEN /\ rd_thread' = [rd_thread EXCEPT ![t].pc = "returned",
                    ![t].got = Timeline(rd_scene.layers, rd_scene.last_frame)]
            /\ UNCHANGED rd_passes
       ELSE IF rd_thread[t].type = "symbol" /\ rd_symbol.some
       THEN /\ rd_thread' = [rd_thread EXCEPT ![t].pc = "returned", ![t].got = rd_symbol.v]
            /\ UNCHANGED rd_passes
       ELSE /\ rd_thread' = [rd_thread EXCEPT ![t].pc = "mark", ![t].i = 1,
                    ![t].mask_idx = -1,
                    ![t].layers = IF rd_thread[t].type = "symbol" THEN rd_source ELSE <<>>]
            /\ rd_passes' = [rd_passes EXCEPT ![rd_thread[t].type] = @ + 1]
    /\ UNCHANGED <<rd_source, rd_scene, rd_symbol, rdOthers>>

\* The layers and the thread after one turn of the loop that left `step`.
RdMarked(t, step) ==
    /\ rd_thread' = [rd_thread EXCEPT ![t].i = rd_thread[t].i + 1,
            ![t].mask_idx = step.mask_idx,
            ![t].layers = IF rd_thread[t].type = "symbol" THEN step.layers ELSE <<>>]
    /\ rd_scene' = IF rd_thread[t].type = "scene"
                   THEN [rd_scene EXCEPT !.layers = step.layers] ELSE rd_scene

\* for i, layer in enumerate(layers): one turn
RdMark(t) ==
    /\ rd_thread[t].pc = "mark"
    /\ rd_thread[t].i <= Len(RdLayers(t))
    /\ RdMarked(t, mark_step(RdLayers(t), rd_thread[t].i, rd_thread[t].mask_idx))
    /\ UNCHANGED <<rd_source, rd_symbol, rd_passes, rdOthers>>

\* return Timeline(layers, get_timeline_length(layers) - 1), and the
\* assignment to self.scenes[name] or self.symbols[name]; None - 1 raises
\* TypeError and nothing is assigned.
RdStore(t) ==
    /\ rd_thread[t].pc = "mark"
    /\ rd_thread[t].i > Len(RdLayers(t))
    /\ IF TimelineLastFrame(RdLayers(t)).raised # ""
       THEN /\ rd_thread' = [rd_thread EXCEPT ![t].pc = "raised"]
            /\ UNCHANGED <<rd_scene, rd_symbol>>
       ELSE /\ rd_thread' = [rd_thread EXCEPT ![t].pc = "returned",
                    ![t].got = Timeline(RdLayers(t), TimelineLastFrame(RdLayers(t)).v)]
            /\ rd_scene' = IF rd_thread[t].type = "scene"
                           THEN [is_timeline |-> TRUE, layers |-> rd_scene.layers,
                                 last_frame |-> TimelineLastFrame(rd_scene.layers).v]
                           ELSE rd_scene
            /\ rd_symbol' = IF rd_thread[t].type = "symbol"
                            THEN Some(Timeline(RdLayers(t),
                                               TimelineLastFrame(RdLayers(t)).v))
                            ELSE rd_symbol
    /\ UNCHANGED <<rd_source, rd_passes, rdOthers>>

(***************************************************************************)
(* Claims about the reader                                                 *)
(***************************************************************************)
\* The layers a single pass of setup_timeline leaves.
SinglePass == mark_layers(rd_source, 1, -1)

\* The layers thread t was handed by a call that returned.
HandedTo(t) == rd_thread[t].got.layers

IsMaskLayer(layers, m) ==
    m + 1 \in DOMAIN layers /\ Get(layers[m + 1].attrib, "layerType", "") = "mask"

\* layers[n] is the last layer whose parentLayerIndex is m.
IsLastChildOf(layers, n, m) ==
    /\ Get(layers[n].attrib, "parentLayerIndex", -1) = m
    /\ \A k \in DOMAIN layers :
        k > n => Get(layers[k].attrib, "parentLayerIndex", -1) # m

\* C28: in a timeline that get_timeline returned, a layer carries MASK_START
\* with value m only if layer m is a mask layer and the marked layer is the
\* last layer whose parentLayerIndex is m; so a mask layer without children
\* leaves no layer marked.
C28_MarkIsLastChildOfMask ==
    \A t \in Threads : rd_thread[t].pc = "returned" =>
        \A n \in DOMAIN HandedTo(t) :
            Has(HandedTo(t)[n].attrib, MASK_START) =>
                /\ IsMaskLayer(HandedTo(t), HandedTo(t)[n].attrib[MASK_START])
                /\ IsLastChildOf(HandedTo(t), n, HandedTo(t)[n].attrib[MASK_START])

\* C23: while only one thread calls get_timeline, the marking pass has run
\* at most once for the scene and at most once for the symbol, and a timeline
\* that was returned is marked completely.
C23_OnePassPerTimeline ==
    rd_thread[2].calls = 0 =>
        /\ \A k \in Kinds : rd_passes[k] <= 1
        /\ rd_thread[1].pc = "returned" => HandedTo(1) = SinglePass

\* C24: whatever passes have run, one after another or interleaved turn by
\* turn, a timeline that was stored or returned has the markers and the
\* last_frame of a single pass, and after a pass that raised the layers
\* have the markers of a single pass.
C24_RemarkingIdempotent ==
    /\ rd_scene.is_timeline =>
        Timeline(rd_scene.layers, rd_scene.last_frame) = setup_timeline(rd_source).timeline
    /\ rd_symbol.some => rd_symbol.v = setup_timeline(rd_source).timeline
    /\ \A t \in Threads :
        /\ rd_thread[t].pc = "returned" => rd_thread[t].got = setup_timeline(rd_source).timeline
        /\ rd_thread[t].pc = "raised" => RdLayers(t) = SinglePass

\* Both threads ran the pass on the layers of the scene, which hold a mask
\* group, and both returned.
C24_Witness ==
    /\ rd_passes["scene"] = 2
    /\ \A t \in Threads : rd_thread[t].pc = "returned" /\ rd_thread[t].type = "scene"
    /\ \E n \in DOMAIN rd_scene.layers : Has(rd_scene.layers[n].attrib, MASK_START)

(***************************************************************************)
(* Specifications                                                          *)
(***************************************************************************)
InitColorEffect == CeInit /\ LfIdle /\ DecIdle /\ SaIdle /\ RnIdle /\ StIdle /\ RdIdle
NextColorEffect == CeReadOuter \/ CeReadInner \/ CeCompose \/ CeGroup
SpecColorEffect == InitColorEffect /\ [][NextColorEffect]_vars

InitLoopFrame == LfInit /\ CeIdle /\ DecIdle /\ SaIdle /\ RnIdle /\ StIdle /\ RdIdle
NextLoopFrame == LfGetLoopFrame
SpecLoopFrame == InitLoopFrame /\ [][NextLoopFrame]_vars

InitEdge == DecInit /\ CeIdle /\ LfIdle /\ SaIdle /\ RnIdle /\ StIdle /\ RdIdle
NextEdge == DecTokenize \/ DecStart \/ DecCommand \/ DecReverse
SpecEdge == InitEdge /\ [][NextEdge]_vars

InitShapes == SaInit /\ CeIdle /\ LfIdle /\ DecIdle /\ RnIdle /\ StIdle /\ RdIdle
NextShapes ==
    SaAddPointList \/ SaNextFill \/ SaNextOrigin \/ SaWhile \/ SaWalk
    \/ SaWalkReturn \/ SaAssert
SpecShapes == InitShapes /\ [][NextShapes]_vars
\* The interpreter keeps running the function until it returns or raises.
FairSpecShapes == SpecShapes /\ WF_vars(NextShapes)

InitRenderer == RnInit /\ CeIdle /\ LfIdle /\ DecIdle /\ SaIdle /\ StIdle /\ RdIdle
NextRenderer == RnRender \/ RnNewRenderer
SpecRenderer == InitRenderer /\ [][NextRenderer]_vars

InitReader == RdInit /\ CeIdle /\ LfIdle /\ DecIdle /\ SaIdle /\ RnIdle /\ StIdle
NextReader == \E t \in Threads : RdCall(t) \/ RdCheck(t) \/ RdMark(t) \/ RdStore(t)
SpecReader == InitReader /\ [][NextReader]_vars

InitStyle == StInit /\ CeIdle /\ LfIdle /\ DecIdle /\ SaIdle /\ RnIdle /\ RdIdle
NextStyle == StParseFill \/ StParseStroke
SpecStyle == InitStyle /\ [][NextStyle]_vars

(***************************************************************************)
(* Claims about the loop-frame computation (SpecLoopFrame)                 *)
(***************************************************************************)
\* The inputs of the computation as the instance states them: first_frame,
\* the loop mode, and last_frame, which is the instance's own lastFrame when
\* it gives one and the referenced timeline's last frame otherwise.
LfFirstFrame == Get(lf_instance.attrib, "firstFrame", 0)
LfMode == Get(lf_instance.attrib, "loop", "single frame")
LfLastFrameKnown ==
    Has(lf_instance.attrib, "lastFrame") \/ TimelineLastFrame(lf_layers).raised = ""
LfLastFrame ==
    IF Has(lf_instance.attrib, "lastFrame") THEN lf_instance.attrib["lastFrame"]
    ELSE TimelineLastFrame(lf_layers).v

\* C7: with first_frame <= last_frame and offset >= 0, the computation
\* returns first_frame in mode "single frame", first_frame + (offset mod
\* (last_frame - first_frame + 1)) in mode "loop" and
\* min(first_frame + offset, last_frame) in mode "play once".
C7_LoopFrameValue ==
    (/\ lf_result.status # "pending"
     /\ LfLastFrameKnown
     /\ LfFirstFrame <= LfLastFrame
     /\ LfMode \in {"single frame", "loop", "play once"})
    => /\ lf_result.status = "returned"
       /\ lf_result.frame =
            CASE LfMode = "single frame" -> LfFirstFrame
              [] LfMode = "loop" ->
                    LfFirstFrame + (lf_offset % (LfLastFrame - LfFirstFrame + 1))
              [] LfMode = "play once" -> Min(LfFirstFrame + lf_offset, LfLastFrame)

\* C8: an instance's explicit lastFrame is the last_frame the computation
\* uses; the timeline's own last frame is used only when the instance gives
\* none.
C8_ExplicitLastFrameUsed ==
    (lf_result.status # "pending" /\ Has(lf_instance.attrib, "lastFrame"))
    => lf_result.last_frame = lf_instance.attrib["lastFrame"]

\* C9: the computation fails in exactly two cases, mode "loop" with
\* last_frame - first_frame + 1 <= 0 (invalid loop length) and an unknown
\* loop mode, and returns a frame index in every other case.
C9_FailsExactlyWhen ==
    (lf_result.status # "pending" /\ LfLastFrameKnown)
    => LET invalid == LfMode = "loop" /\ LfLastFrame - LfFirstFrame + 1 <= 0
           unknown == LfMode \notin {"single frame", "loop", "play once"}
       IN  /\ lf_result.status = "raised" <=> (invalid \/ unknown)
           /\ invalid => lf_result.error = "Invalid loop length"
           /\ unknown => lf_result.error = "Unknown loop type"
           /\ lf_result.status = "raised" => lf_result.frame = -1

(***************************************************************************)
(* Claims about color effects (SpecColorEffect)                            *)
(***************************************************************************)
\* C10 as stated: for every effect X and every identity effect I (absent, or
\* all-ones multiplier and all-zeros offset), I @ X = X and X @ I = X.
C10_IdentityLaws ==
    ce_pc = "done"
    => /\ is_identity(ce_outer) => ce_result = ce_inner
       /\ is_identity(ce_inner) => ce_result = ce_outer

\* C10 as amended: I @ X = X and X @ I = X for every identity effect I and
\* every effect X, except that the explicit identity composed with the
\* absent effect, on either side, gives the explicit identity.
C10_IdentityLawsAmended ==
    ce_pc = "done"
    => /\ is_identity(ce_outer)
            => \/ ce_result = ce_inner
               \/ ce_outer = CeOnes /\ ce_inner = CeNone /\ ce_result = CeOnes
       /\ is_identity(ce_inner)
            => \/ ce_result = ce_outer
               \/ ce_inner = CeOnes /\ ce_outer = CeNone /\ ce_result = CeOnes

\* The explicit identity has been composed with an effect that is not an
\* identity and has a non-zero offset.
C10_Witness ==
    /\ ce_pc = "done"
    /\ ce_outer = CeOnes
    /\ ce_inner.some
    /\ ~is_identity(ce_inner)
    /\ \E c \in 1..4 : ce_inner.o[c] # R(0)
    /\ ce_result = ce_inner

\* C11: for non-identity effects A (outer) and B (inner), compose(A, B) is
\* (A.m[c] * B.m[c], A.m[c] * B.o[c] + A.o[c]) on each of the four channels c.
C11_ComposeChannelwise ==
    (ce_pc = "done" /\ ~is_identity(ce_outer) /\ ~is_identity(ce_inner))
    => /\ ce_result.some
       /\ \A c \in 1..4 :
            /\ ce_result.m[c] = RMul(ce_outer.m[c], ce_inner.m[c])
            /\ ce_result.o[c] = RAdd(RMul(ce_outer.m[c], ce_inner.o[c]), ce_outer.o[c])

\* Two non-identity effects have been composed that both scale and both
\* shift the same channel, so that the order of the operands shows.
C11_Witness ==
    /\ ce_pc = "done"
    /\ ~is_identity(ce_outer)
    /\ ~is_identity(ce_inner)
    /\ \E c \in 1..4 :
        /\ ce_outer.m[c] # R(1) /\ ce_outer.o[c] # R(0)
        /\ ce_inner.o[c] # R(0)
        /\ ce_result.o[c] # ce_outer.o[c]
        /\ ce_result.o[c] # ce_inner.o[c]

\* C29: composition is associative over exact arithmetic: for all effects
\* A, B, C, the identity among them, compose(A, compose(B, C)) equals
\* compose(compose(A, B), C).
C29_ComposeAssociative ==
    ce_pc = "grouped" => ce_left = ce_right

\* Three effects that are not the identity, with offsets and multipliers
\* that are not 0 and not 1, have been composed in both groupings.
C29_Witness ==
    /\ ce_pc = "grouped"
    /\ ~is_identity(ce_outer) /\ ~is_identity(ce_inner) /\ ~is_identity(ce_third)
    /\ ce_outer.m[1] = Half
    /\ ce_inner.o[1] # R(0)
    /\ ce_third.o[1] # R(0)
    /\ ce_left.o[1] # ce_third.o[1]

\* The effect of an advanced descriptor, channel by channel: the multiplier
\* given (default 1) and the offset given divided by 255 (default 0).
PerChannelEffect(attrib) ==
    ColorEffect(<<Get(attrib, "redMultiplier", R(1)), Get(attrib, "greenMultiplier", R(1)),
                  Get(attrib, "blueMultiplier", R(1)), Get(attrib, "alphaMultiplier", R(1))>>,
                <<RDiv(Get(attrib, "redOffset", R(0)), 255),
                  RDiv(Get(attrib, "greenOffset", R(0)), 255),
                  RDiv(Get(attrib, "blueOffset", R(0)), 255),
                  RDiv(Get(attrib, "alphaOffset", R(0)), 255)>>)

\* A descriptor with a per-channel multiplier or offset, and none of the
\* parameters of the brightness and tint modes.
IsAdvanced(attrib) ==
    /\ DOMAIN attrib \cap AdvancedKeys # {}
    /\ DOMAIN attrib \cap {"brightness", "tintMultiplier", "tintColor"} = {}

\* The outer descriptor has been read; the inner descriptor has been read.
OuterRead == ce_pc \in {"read_inner", "compose", "done"}
InnerRead == ce_pc \in {"compose", "done"}

\* C18: from_xfl gives, for an advanced descriptor, on each RGBA channel the
\* given multiplier (default 1) and the given offset divided by 255
\* (default 0), also when an alpha multiplier comes with red, green or blue
\* multipliers or offsets.
C18_AdvancedPerChannel ==
    /\ (OuterRead /\ IsAdvanced(ce_attrib_a)) => ce_outer = PerChannelEffect(ce_attrib_a)
    /\ (InnerRead /\ IsAdvanced(ce_attrib_b)) => ce_inner = PerChannelEffect(ce_attrib_b)

\* "#" followed by exactly six hexadecimal digits.
IsHexColor(color) ==
    /\ Len(color) = 7
    /\ color[1] = "#"
    /\ \A i \in 2..7 : color[i] \in HexDigitChars

\* A malformed descriptor: a tint whose color is not a hex color, or a
\* descriptor with no recognised parameter.
IsMalformed(attrib) ==
    \/ /\ DOMAIN attrib \cap {"alphaMultiplier", "brightness"} = {}
       /\ Has(attrib, "tintColor")
       /\ ~IsHexColor(attrib["tintColor"])
    \/ DOMAIN attrib \cap (AdvancedKeys \cup {"brightness", "tintMultiplier", "tintColor"})
           = {}

\* C19: from_xfl never fails on a malformed descriptor: it gives the
\* identity effect and a warning.
C19_MalformedGivesIdentityAndWarning ==
    /\ ce_error = ""
    /\ (OuterRead /\ IsMalformed(ce_attrib_a))
            => is_identity(ce_outer) /\ ce_attrib_a \in ce_warned
    /\ (InnerRead /\ IsMalformed(ce_attrib_b))
            => is_identity(ce_inner) /\ ce_attrib_b \in ce_warned

(***************************************************************************)
(* Claims about the edge decoder (SpecEdge)                                *)
(***************************************************************************)
\* A point in real units.
IsNumberToken(tok) == tok.t \in {"dec", "hex"}

\* The tokens are a move to a point P, one or more line commands, and a
\* final move to P again.
IsMoveLinesMoveBack(tokens) ==
    /\ Len(tokens) >= 9
    /\ Len(tokens) % 3 = 0
    /\ \A i \in 1..Len(tokens) :
        IF i % 3 # 1 THEN IsNumberToken(tokens[i])
        ELSE IF i = 1 \/ i = Len(tokens) - 2 THEN tokens[i].t = "!"
        ELSE IsLineCommand(tokens[i])
    /\ next_point(tokens, 2).p = next_point(tokens, Len(tokens) - 1).p

\* The point of the last line command of such tokens.
LastLinePoint(tokens) == next_point(tokens, Len(tokens) - 4).p

IsClosed(point_list) == point_list[1] = point_list[Len(point_list)]
EndsWithZ(path) == path[Len(path)] = PathCmd("Z")

SquareOpen == <<Pt(Point(0, 0)), Pt(Point(10, 0)), Pt(Point(10, 10)), Pt(Point(0, 10))>>
SquareClosed == Append(SquareOpen, Pt(Point(0, 0)))

ControlsKeepNeighbours(point_list, other) ==
    \A i \in 2..(Len(point_list) - 1) :
        (point_list[i].ctrl /\ ~point_list[i - 1].ctrl /\ ~point_list[i + 1].ctrl)
        => LET j == Len(point_list) + 1 - i
           IN  /\ other[j] = point_list[i]
               /\ ~other[j - 1].ctrl /\ ~other[j + 1].ctrl
               /\ {other[j - 1], other[j + 1]} = {point_list[i - 1], point_list[i + 1]}
               /\ other[j - 1] = point_list[i + 1]

\* C12: reversing a Segment twice yields the original vertex for vertex, and
\* one reversal keeps the vertex count, mirrors the order and keeps every
\* quadratic control point between the same two plain points.
C12_ReversalInvolutionKeepsPairing ==
    dec_pc = "reversed"
    => /\ Len(dec_reversed) = Len(dec_segments)
       /\ \A i \in 1..Len(dec_segments) :
            /\ Len(dec_reversed[i]) = Len(dec_segments[i])
            /\ reversed(dec_reversed[i]) = dec_segments[i]
            /\ ControlsKeepNeighbours(dec_segments[i], dec_reversed[i])

\* A Segment with a line and then a curve has been reversed: its control
\* point is not in the middle of the list.
C12_Witness ==
    /\ dec_pc = "reversed"
    /\ \E i \in 1..Len(dec_segments) :
         /\ Len(dec_segments[i]) = 4
         /\ dec_segments[i][3].ctrl
         /\ dec_reversed[i][2].ctrl
         /\ dec_segments[i][1] # dec_segments[i][4]

\* A point list is a well formed Segment: it starts with a plain point,
\* every control point is followed at once by a plain point, and the last
\* entry is no control point.
IsWellFormedSegment(point_list) ==
    /\ point_list # <<>>
    /\ ~point_list[1].ctrl
    /\ ~point_list[Len(point_list)].ctrl
    /\ \A i \in 1..(Len(point_list) - 1) : point_list[i].ctrl => ~point_list[i + 1].ctrl

\* C30: for every token stream that starts with a move command, also one
\* that ends in the middle of a command, every Segment yielded is well
\* formed: it starts with a plain point, every control point is followed at
\* once by a plain destination point, and it never ends on a control point.
C30_SegmentsWellFormed ==
    (dec_pc \in {"loop", "done", "reversed"})
    => \A i \in 1..Len(dec_segments) : IsWellFormedSegment(dec_segments[i])

\* The edges begin with no move command, or hold a numeric literal that is
\* none of the format.
IsMalformedEdges(edges) == edges \in NoMoveFirstEdges \cup BadNumberEdges

\* C20: decoding edges whose tokens do not begin with a move command (the
\* empty edges too), or that hold a numeric literal that cannot be parsed,
\* ends with an error and yields no Segments as if they were well formed.
C20_MalformedEdgesFail ==
    (IsMalformedEdges(dec_edges) /\ dec_pc \in {"done", "reversed", "raised"})
    => /\ dec_pc = "raised"
       /\ dec_error # ""

\* What an SVG path paints with the attributes: the fill is black and the
\* stroke none when the attribute is missing.
PaintedFill(attrib) == Get(attrib, "fill", "black")
PaintedStroke(attrib) == Get(attrib, "stroke", "none")

\* C21: a fill kind or a stroke kind that is not supported gives a warning
\* and attributes that paint nothing: fill none for the fill, no stroke for
\* the stroke.
C21_UnsupportedPaintsNothing ==
    (st_pc = "parsed" /\ st_warnings # {})
    => /\ st_warnings \subseteq {"Unknown fill style", "Unknown stroke style",
                                  "Unknown stroke fill"}
       /\ st_is_fill => PaintedFill(st_attrib) = "none"
       /\ ~st_is_fill => PaintedStroke(st_attrib) = "none"

(***************************************************************************)
(* Claims about the shape assembler (SpecShapes, FairSpecShapes)           *)
(***************************************************************************)
\* A Segment is closed iff its first and last points are equal.
IsClosedSegment(point_list) == point_list[1] = Last(point_list)

InputSegments == {n \in 1..Len(sa_point_lists) : TRUE}
OpenInputs == {n \in InputSegments : ~IsClosedSegment(sa_point_lists[n][1])}
ClosedInputs == InputSegments \ OpenInputs

\* The fill graph of the input is balanced: within each fill identity, as
\* many open Segments start at a point as end at it.
Balanced ==
    \A f \in {sa_point_lists[n][2] : n \in OpenInputs} :
        \A p \in {sa_point_lists[n][1][1] : n \in OpenInputs}
                 \cup {Last(sa_point_lists[n][1]) : n \in OpenInputs} :
            Cardinality({n \in OpenInputs : sa_point_lists[n][2] = f
                                            /\ sa_point_lists[n][1][1] = p})
            = Cardinality({n \in OpenInputs : sa_point_lists[n][2] = f
                                              /\ Last(sa_point_lists[n][1]) = p})

\* The rings of all fill identities in the result.
RECURSIVE RingsFrom(_)
RingsFrom(n) ==
    IF n > Len(sa_shapes.vals) THEN <<>> ELSE sa_shapes.vals[n] \o RingsFrom(n + 1)

OutputRings == RingsFrom(1)

\* The Vertices of a Segment: its move point, and one per line or quadratic
\* (a control point and its destination make one Vertex).
VertexCount(point_list) ==
    Cardinality({k \in 1..Len(point_list) : ~point_list[k].ctrl})

RECURSIVE TotalVertexCount(_, _)
TotalVertexCount(point_lists, n) ==
    IF n > Len(point_lists) THEN 0
    ELSE VertexCount(point_lists[n]) + TotalVertexCount(point_lists, n + 1)

InputVertexCount ==
    TotalVertexCount([n \in 1..Len(sa_point_lists) |-> sa_point_lists[n][1]], 1)

AllRingsClosed ==
    \A n \in 1..Len(OutputRings) : IsClosedSegment(OutputRings[n])

\* The rings that were joined from open Segments; the closed Segments of the
\* input are rings of the output as they are.
JoinedRingCount == Len(OutputRings) - Cardinality(ClosedInputs)

SaTerminated == sa_pc \in {"returned", "AssertionError", "TypeError", "RuntimeError"}

\* C4 as stated: for a balanced fill graph every output ring is closed and the
\* output rings have as many vertices in total as the input Segments they
\* were made of (closed input Segments pass through unchanged, so they count
\* the same on both sides).
C4_RingsClosedSameVertexCount ==
    (sa_pc = "returned" /\ Balanced) =>
        /\ AllRingsClosed
        /\ TotalVertexCount(OutputRings, 1) = InputVertexCount

\* C4 amended: for a balanced fill graph assembly returns, every output ring
\* is closed, and the output rings have as many vertices as the input
\* Segments less one for every join, that is less the number of open
\* Segments that are not the first of their ring.
C4_RingsClosedJoinsElided ==
    /\ (SaTerminated /\ Balanced) => sa_pc = "returned"
    /\ (sa_pc = "returned" /\ Balanced) =>
        /\ AllRingsClosed
        /\ TotalVertexCount(OutputRings, 1)
           = InputVertexCount - (Cardinality(OpenInputs) - JoinedRingCount)

\* A balanced input with open Segments has been assembled into two or more
\* rings after a backtrack.
C4_Witness ==
    /\ sa_pc = "returned"
    /\ Balanced
    /\ OpenInputs # {}
    /\ JoinedRingCount >= 2
    /\ sa_backtracked

\* C5: when a ring cannot be completed (the fill graph is not balanced, so
\* some open Segment is part of no ring), assembly ends with the assertion
\* error "Failed to build shape" and with no other failure; and a result
\* that is returned has no unclosed ring.
C5_OnlyAssemblyError ==
    /\ (SaTerminated /\ ~Balanced) => sa_pc = "AssertionError"
    /\ sa_pc = "returned" => AllRingsClosed

\* C6: for every input, balanced or not, the assembler terminates: it
\* returns or raises.
C6_AssemblerTerminates == <>SaTerminated

\* The assembler has terminated on an unbalanced input after a backtrack.
C6_Witness ==
    /\ SaTerminated
    /\ ~Balanced
    /\ sa_backtracked
    /\ Len(sa_point_lists) = MaxSegments

\* The open Segments of the input that have the fill identity f.
OpenInputsOf(f) == {n \in OpenInputs : sa_point_lists[n][2] = f}

\* The rings of the fill identity f that were joined from open Segments:
\* those after the closed Segments of the input, which come first.
JoinedRingsOf(f) ==
    IF ~DictHas(sa_shapes, f) THEN <<>>
    ELSE SubSeq(DictGet(sa_shapes, f),
                Cardinality({n \in ClosedInputs : sa_point_lists[n][2] = f}) + 1,
                Len(DictGet(sa_shapes, f)))

IsPrefix(s, points) == Len(s) <= Len(points) /\ SubSeq(points, 1, Len(s)) = s

\* The ways to read the points of a ring as a chain of the Segments segs:
\* each Segment of the chain starts at the point its predecessor ends at,
\* and that point stands in the ring once.
RECURSIVE Chains(_, _)
Chains(points, segs) ==
    IF Len(points) = 1 THEN {<<>>}
    ELSE UNION {{<<s>> \o c : c \in Chains(SubSeq(points, Len(s), Len(points)), segs)} :
                   s \in {x \in segs : IsPrefix(x, points)}}

\* The chains of rings[n], rings[n + 1], ... one after the other.
RECURSIVE ChainsOfRings(_, _, _)
ChainsOfRings(rings, n, segs) ==
    IF n > Len(rings) THEN {<<>>}
    ELSE {c \o d : c \in Chains(rings[n], segs), d \in ChainsOfRings(rings, n + 1, segs)}

\* The rings of f use every open Segment of f as often as the input holds it.
UsesEachOnce(f) ==
    \E c \in ChainsOfRings(JoinedRingsOf(f), 1,
                            {sa_point_lists[n][1] : n \in OpenInputsOf(f)}) :
        \A m \in OpenInputsOf(f) :
            Cardinality({k \in 1..Len(c) : c[k] = sa_point_lists[m][1]})
            = Cardinality({n \in OpenInputsOf(f) :
                              sa_point_lists[n][1] = sa_point_lists[m][1]})

\* No point list is left in the graph.
GraphIsEmpty ==
    \A f \in 1..Len(sa_graph.vals) :
        \A p \in 1..Len(sa_graph.vals[f].vals) : sa_graph.vals[f].vals[p] = <<>>

\* C25: for a balanced fill graph assembly returns, no point list is left in
\* the graph, and the joined rings of every fill identity are chains of its
\* open Segments, each Segment starting where its predecessor ends with that
\* point written once, that use every open Segment of the input exactly once.
C25_EverySegmentInOneRing ==
    /\ (SaTerminated /\ Balanced) => sa_pc = "returned"
    /\ (sa_pc = "returned" /\ Balanced) =>
        /\ GraphIsEmpty
        /\ \A f \in {sa_point_lists[n][2] : n \in InputSegments} : UsesEachOnce(f)

\* A balanced input of a closed Segment and three open ones was assembled
\* into one ring of the three.
C25_Witness ==
    /\ sa_pc = "returned"
    /\ Balanced
    /\ ClosedInputs # {}
    /\ Cardinality(OpenInputs) = 3
    /\ JoinedRingCount = 1

(***************************************************************************)
(* Claims about the renderer                                               *)
(***************************************************************************)
\* The renders that returned a document.
Returned == {n \in 1..Len(rn_renders) : rn_renders[n].raised = ""}

\* C1: rendering the same (timeline, frame, width, height, kind) of the
\* project twice gives identical documents, fragment identifiers included,
\* whether the second render follows the first on the same renderer, follows
\* other renders, or runs on a fresh renderer.
C1_RepeatedRenderIdentical ==
    \A i \in Returned, j \in Returned :
        rn_renders[i].args = rn_renders[j].args
            => rn_renders[i].document = rn_renders[j].document

\* The calls of self._handle_domshape for shapes that are not inside a mask.
SeenOutsideMask == {e \in rn_seen : ~e.key[4]}

\* Two calls for the same shape of the same symbol and frame: the same
\* <DOMShape> element under the same id.
SameShape(e, f) == e.key[1] = f.key[1] /\ e.key[2] = f.key[2]

\* The fill of the output has the filter reference `ref`; "" stands for a
\* fill that has no filter attribute.
FilterReference(value) == Get(value.body[1].attrib, "filter", "")

\* Two color effects differ in what they do to a color.
EffectChanged(a, b) == a # b /\ ~(is_identity(a) /\ is_identity(b))

\* C2: two instances of the same symbol and frame under the same composed
\* color effect give identical cached output; when only the color effect
\* changes, the cache entry is another one and the fill refers to another
\* filter.
C2_EffectSelectsCacheEntryAndFilter ==
    \A e \in SeenOutsideMask, f \in SeenOutsideMask :
        SameShape(e, f) =>
            /\ e.key[3] = f.key[3] => e.value = f.value
            /\ EffectChanged(e.key[3], f.key[3]) =>
                   /\ e.key # f.key
                   /\ FilterReference(e.value) # FilterReference(f.value)

\* The records of the layers placed into a body, of the frames looked up, of
\* the elements rendered and of the shapes handled.
LayersPlaced == {rec \in rn_trace : rec.kind = "layer"}
FramesLookedUp == {rec \in rn_trace : rec.kind = "frame"}
ElementsRendered == {rec \in rn_trace : rec.kind = "element"}
ShapesHandled == {rec \in rn_trace : rec.kind = "fill"}

\* Layer n of the marked layers lies in a mask group: at it or after it (it
\* is reached back to front) a layer is marked as the start of the group of
\* a mask layer that is before it.
InMaskGroup(layers, n) ==
    \E k \in n..Len(layers) :
        Has(layers[k], MASK_START) /\ layers[k][MASK_START] + 1 < n

\* C13: back to front, from a layer marked as the start of a mask group up
\* to the mask layer, the content of every layer is nested in the masked
\* container; the mask layer is never body content, and the layers after
\* the mask layer are placed outside the container.
C13_MaskGroupNested ==
    \A rec \in LayersPlaced :
        /\ Get(rec.layers[rec.n], "layerType", "") # "mask"
        /\ rec.nested = InMaskGroup(rec.layers, rec.n)

\* The calls of self._handle_domshape for shapes inside a mask.
SeenInsideMask == {e \in rn_seen : e.key[4]}

AllPaths(g, fill) == \A k \in 1..Len(g.children) : Get(g.children[k].attrib, "fill", "") = fill

\* C14: what is rendered inside a mask has every fill forced to the opaque
\* marker color "#FFFFFF", refers to no stroke and carries no color-effect
\* filter, whatever the color effects of the instances around it.
C14_InsideMaskOpaqueFillsOnly ==
    \A e \in SeenInsideMask :
        /\ \A k \in 1..Len(e.value.body) :
              /\ ~Has(e.value.body[k].attrib, "filter")
              /\ e.value.body[k].attrib[HREF] = "#" \o e.key[2] \o "_FILL"
        /\ \A k \in 1..Len(e.value.defs.keys) :
              /\ e.value.defs.keys[k] = e.key[2] \o "_FILL"
              /\ AllPaths(e.value.defs.vals[k], "#FFFFFF")

\* The span <<index, duration>> of a keyframe covers frame f.
Covers(span, f) == span[1] <= f /\ f < span[1] + span[2]

\* The render of (name, frame_idx) returned a document with no definition
\* and no body.
RendersNothing(made) ==
    /\ Len(made.document.children) = 1
    /\ made.document.children[1].children = <<>>

\* C15: whatever frames were looked up before, the keyframe used for frame
\* f is the one with index <= f < index + duration; a layer with no such
\* keyframe, or with no keyframe at all, renders nothing.
C15_KeyframeCoversFrame ==
    /\ \A rec \in FramesLookedUp :
          IF \E k \in 1..Len(rec.frames) : Covers(rec.frames[k], rec.frame_idx)
          THEN rec.used # 0 /\ Covers(rec.frames[rec.used], rec.frame_idx)
          ELSE rec.used = 0
    /\ \A n \in Returned :
          (rn_renders[n].args[1] = Gaps /\ rn_renders[n].args[2] = 0)
          => RendersNothing(rn_renders[n])

\* The same renderer looked up frame 1 and then frame 0 of the layers with
\* a gap, and the layer without keyframes.
C15_Witness ==
    /\ Len(rn_renders) >= 2
    /\ rn_renders[Len(rn_renders) - 1].args[1] = Gaps
    /\ rn_renders[Len(rn_renders) - 1].args[2] = 1
    /\ rn_renders[Len(rn_renders)].args[1] = Gaps
    /\ rn_renders[Len(rn_renders)].args[2] = 0
    /\ \E rec \in FramesLookedUp : rec.frames = <<>> /\ rec.used = 0
    /\ \E rec \in FramesLookedUp : rec.frames = <<<<1, 1>>>> /\ rec.used = 0
    /\ \E rec \in FramesLookedUp : rec.frames = <<<<1, 1>>>> /\ rec.used = 1

\* C16: the result of an element is wrapped in a transform container if and
\* only if the element is no group and its matrix is not the identity; an
\* element with no matrix or the identity matrix gets no container, and a
\* group never applies its matrix.
C16_WrappedIffMatrix ==
    \A rec \in ElementsRendered :
        rec.wrapped <=> (rec.tag # "DOMGroup" /\ rec.matrix # IDENTITY_MATRIX)

\* compose(e1, compose(e2, ... en)) for the effects the instances of the
\* chain have of their own, the outermost first.
RECURSIVE ComposeChain(_)
ComposeChain(chain) ==
    IF chain = <<>> THEN CeNone
    ELSE IF ~Head(chain).some THEN ComposeChain(Tail(chain))
    ELSE IF ComposeChain(Tail(chain)) = CeNone THEN Head(chain).v
    ELSE matmul(Head(chain).v, ComposeChain(Tail(chain)))

\* C17: outside a mask, the effect applied to the fill of a shape under a
\* chain of nested instances is compose(e1, compose(e2, ... en)) of the
\* instances' own effects, the outermost first; an instance with no effect
\* of its own passes the inbound effect on.
C17_NestedEffectsCompose ==
    \A rec \in ShapesHandled :
        ~rec.key[4] => rec.key[3] = ComposeChain(rec.chain)

\* A shape was handled under three nested instances that all have an effect
\* of their own, and under three of which the middle one has none.
C17_Witness ==
    /\ \E rec \in ShapesHandled :
          /\ ~rec.key[4]
          /\ Len(rec.chain) = 3
          /\ \A k \in 1..3 : rec.chain[k].some
          /\ rec.key[3] # matmul(rec.chain[3].v, matmul(rec.chain[2].v, rec.chain[1].v))
    /\ \E rec \in ShapesHandled :
          /\ ~rec.key[4]
          /\ Len(rec.chain) = 3
          /\ ~rec.chain[2].some

\* The fragment ids of a document: the values of its id attributes and
\* the references of its <use> elements.
RECURSIVE FragmentRefs(_)
FragmentRefs(el) ==
    {el.attrib[k] : k \in {a \in DOMAIN el.attrib : a \in {"id", HREF}}}
    \cup UNION {FragmentRefs(el.children[n]) : n \in 1..Len(el.children)}

\* The document with its fragment ids and references replaced as sigma tells.
RECURSIVE Renamed(_, _)
Renamed(el, sigma) ==
    El(el.tag,
       [k \in DOMAIN el.attrib |->
           IF k \in {"id", HREF} THEN sigma[el.attrib[k]] ELSE el.attrib[k]],
       [n \in 1..Len(el.children) |-> Renamed(el.children[n], sigma)])

Bijections(S, T) ==
    {f \in [S -> T] : /\ \A a, b \in S : f[a] = f[b] => a = b
                      /\ \A c \in T : \E a \in S : f[a] = c}

\* The renders of the scene "Still", which returned.
StillRenders == {n \in Returned : rn_renders[n].args[1] = Still}

RECURSIVE ShapesIn(_)
ShapesIn(elements) ==
    UNION {IF elements[n].tag = "DOMShape" THEN {elements[n]}
           ELSE IF elements[n].tag = "DOMGroup"
           THEN ShapesIn(elements[n].children[Len(elements[n].children)].children)
           ELSE {} : n \in 1..Len(elements)}

ShapesOfLayer(layer) ==
    UNION {ShapesIn(layer.frames[f].elements) : f \in 1..Len(layer.frames)}

ShapesOfLayers(layers) == UNION {ShapesOfLayer(layers[l]) : l \in 1..Len(layers)}

\* The <DOMShape> elements of the project.
ProjectShapes ==
    ShapesOfLayers(SceneLayers) \cup ShapesOfLayers(StillLayers)
    \cup ShapesOfLayers(M3UnderscoreLayers)
    \cup UNION {ShapesOfLayers(SymbolFiles[name]) : name \in DOMAIN SymbolFiles}

\* What _handle_domshape itself returns for the arguments of a key.
Uncached(key) ==
    handle_domshape(CHOOSE s \in ProjectShapes : s.oid = key[1], key[2], key[3], key[4])

FragmentIds(e) ==
    {k \in {e.key[2] \o "_FILL", e.key[2] \o "_STROKE"} : DictHas(e.value.defs, k)}

\* C27: of the shapes handled for one document, the first a renderer made,
\* two that were given the same fill id or the same stroke id put the same
\* fragment under it, so that defs.update() replaces no fragment by another.
C27_FragmentIdsUnique ==
    Len(rn_renders) = 1 =>
        \A e \in rn_seen, f \in rn_seen :
            \A k \in FragmentIds(e) \cap FragmentIds(f) :
                DictGet(e.value.defs, k) = DictGet(f.value.defs, k)

====
